---- MODULE Spec2Model ----
(***************************************************************************)
(* Model of the risk scoring, mitigation aggregation and query engine of   *)
(* odyn: RiskManagement.tsx (severity classifier, filter / sort /          *)
(* statistics over the loaded risk collection; handleCreateRisk,           *)
(* handleUpdateRisk, handleDeleteRisk and logAuditEvent, each handler      *)
(* split at its awaited calls) and AddAssetForm.tsx                        *)
(* (handleSubmit: base score from the estimator, mitigation reduction,     *)
(* hand-over of the asset record to onSubmit).                             *)
(*                                                                         *)
(* Strings that the code inspects character by character (title,           *)
(* description, search term) are sequences of UTF-16 code units; strings   *)
(* that the code only compares for equality are TLA+ strings.              *)
(***************************************************************************)
EXTENDS Integers, Sequences, FiniteSets, TLC

VARIABLES
    \* ---- severity classifier applied to one score (RiskManagement.tsx) ----
    cScore,          \* the score handed to the classifier
    cBand,           \* the band requested by the risk-level filter
    cLevel,          \* result of getRiskLevel(cScore), "unset" before the call
    cMatches,        \* result of the risk-level predicate: "unset" before the
                     \* call, then "accepted" or "rejected"
    cCounted,        \* the riskStats band counters that count cScore,
                     \* {"unset"} before they are computed
    \* ---- RiskManagement component state ----
    store,           \* rows of the remote table 'risks', newest first
    risks,           \* useState<Risk[]>([])
    loading,         \* useState(true)
    error,           \* useState<string | null>(null)
    searchTerm,      \* useState('')
    filterCategory,  \* useState('all')
    filterStatus,    \* useState('all')
    filterRiskLevel, \* useState('all')
    sortField,       \* useState('risk_score')
    sortDirection,   \* useState('desc')
    fetchPc,         \* position of the fetchRisks call of the mount effect
    selectedRisk,    \* useState<Risk | null>(null)
    showAddForm,     \* useState(false)
    showEditForm,    \* useState(false)
    editingRisk,     \* useState<Risk | null>(null)
    organizationId,  \* profile?.organization_id of useAuth, "" when absent
    ops,             \* the invocations of handleCreateRisk, handleUpdateRisk
                     \* and handleDeleteRisk, with the calls each has issued
    opsStarted,      \* number of these invocations so far
    \* ---- AddAssetForm component state ----
    mitigations,     \* useState<AppliedMitigation[]>([])
    aLoading,        \* useState(false)
    aError,          \* useState<string | null>(null)
    aiScoring,       \* useState(false)
    allPersonnel,         \* useState<PersonnelDetail[]>([])
    personnelSearchTerm,  \* useState('')
    loadingPersonnel,     \* useState(false)
    authorized,           \* formData.personnel.authorized, initially []
    personnelPc,          \* position of the fetchPersonnel call of the mount effect
    personnelTable,       \* the rows of the remote table personnel_details
    frames,          \* the handleSubmit invocations that have not returned
    \* ---- ProtectedRoute (auth/ProtectedRoute.tsx) ----
    auth,            \* what useAuth() returns: user, profile, loading, and the
                     \* answers of hasPermission and hasRole
    props,           \* requiredPermission, requiredRole, fallback
    now,             \* the time new Date() reads at a render
    rendered         \* what the last render returned

classifyVars == <<cScore, cBand, cLevel, cMatches, cCounted>>
crudVars == <<selectedRisk, showAddForm, showEditForm, editingRisk,
              organizationId, ops, opsStarted>>
riskVars == <<store, risks, loading, error, searchTerm, filterCategory,
              filterStatus, filterRiskLevel, sortField, sortDirection, fetchPc,
              crudVars>>
personnelVars == <<allPersonnel, personnelSearchTerm, loadingPersonnel,
                   authorized, personnelPc, personnelTable>>
assetVars == <<mitigations, aLoading, aError, aiScoring, frames,
               personnelVars>>
\* what ProtectedRoute reads when it renders, and what it returns
routeVars == <<auth, props, now, rendered>>

vars == <<classifyVars, riskVars, assetVars, routeVars>>

NULL == "null"

----------------------------------------------------------------------------
(* Bounds *)

\* scores handed to the classifier range over -MaxScore .. MaxScore
MaxScore == 30

\* the clock of ProtectedRoute runs over 1 .. MaxTime
MaxTime == 3

ScoreRange == (0 - MaxScore)..MaxScore

\* invocations of handleCreateRisk, handleUpdateRisk and handleDeleteRisk
\* in one behaviour
MaxOps == 2

----------------------------------------------------------------------------
(* Severity classifier: RiskManagement.tsx *)

\* a classifier whose first band ends one score early
getRiskLevel_offByOne(score) ==
    IF score < 5 THEN "Low"
    ELSE IF score <= 12 THEN "Medium"
    ELSE IF score <= 20 THEN "High"
    ELSE "Critical"

getRiskLevel(score) ==
    IF score <= 5 THEN "Low"
    ELSE IF score <= 12 THEN "Medium"
    ELSE IF score <= 20 THEN "High"
    ELSE "Critical"

\* the options of the risk-level select
RiskLevelOptions == {"all", "low", "medium", "high", "critical"}

\* a risk-level predicate whose high band starts one score late
matchesRiskLevel_lateHigh(level, risk_score) ==
    IF level = "low" THEN risk_score <= 5
    ELSE IF level = "medium" THEN risk_score > 5 /\ risk_score <= 12
    ELSE IF level = "high" THEN risk_score > 13 /\ risk_score <= 20
    ELSE IF level = "critical" THEN risk_score > 20
    ELSE TRUE

\* let matchesRiskLevel = true; if (filterRiskLevel === 'low') ... else if ...
matchesRiskLevel(level, risk_score) ==
    IF level = "low" THEN risk_score <= 5
    ELSE IF level = "medium" THEN risk_score > 5 /\ risk_score <= 12
    ELSE IF level = "high" THEN risk_score > 12 /\ risk_score <= 20
    ELSE IF level = "critical" THEN risk_score > 20
    ELSE TRUE

\* the predicates of the four band counters of riskStats
countsAsCritical(risk_score) == risk_score > 20
countsAsHigh(risk_score) == risk_score > 12 /\ risk_score <= 20
countsAsMedium(risk_score) == risk_score > 5 /\ risk_score <= 12
\* a low counter that leaves out the last score of the band
countsAsLow_strict(risk_score) == risk_score < 5

countsAsLow(risk_score) == risk_score <= 5

\* the band counters of riskStats that a score is counted in
countedBands(risk_score) ==
    {b \in {"low", "medium", "high", "critical"} :
        \/ b = "critical" /\ countsAsCritical(risk_score)
        \/ b = "high" /\ countsAsHigh(risk_score)
        \/ b = "medium" /\ countsAsMedium(risk_score)
        \/ b = "low" /\ countsAsLow(risk_score)}

----------------------------------------------------------------------------
(* Strings as sequences of UTF-16 code units *)

\* String.prototype.toLowerCase on the letters A-Z (65..90 -> 97..122)
toLowerCase(s) ==
    [i \in 1..Len(s) |-> IF s[i] >= 65 /\ s[i] <= 90 THEN s[i] + 32 ELSE s[i]]

\* String.prototype.includes: t occurs in s as a contiguous substring
includes(s, t) ==
    \E i \in 0..(Len(s) - Len(t)) : SubSeq(s, i + 1, i + Len(t)) = t

----------------------------------------------------------------------------
(* The remote table 'risks' and the inputs of the list view *)

\* at most MaxRisks rows are in the table
MaxRisks == 3

\* candidate rows: title "Ab" / "bc" / "Cd" / "ab" / "D", description
\* "cd" / "AD" / "b" / "" / "Ba"; created_at is the server-assigned timestamp
RiskRows ==
    { [id |-> "r1", title |-> <<65, 98>>, description |-> <<99, 100>>,
       category |-> "security", status |-> "identified", risk_score |-> 5,
       created_at |-> 1],
      [id |-> "r2", title |-> <<98, 99>>, description |-> <<65, 68>>,
       category |-> "financial", status |-> "closed", risk_score |-> 15,
       created_at |-> 2],
      [id |-> "r3", title |-> <<67, 100>>, description |-> <<98>>,
       category |-> "security", status |-> "mitigated", risk_score |-> 25,
       created_at |-> 3],
      [id |-> "r4", title |-> <<97, 98>>, description |-> <<>>,
       category |-> "financial", status |-> "identified", risk_score |-> 12,
       created_at |-> 4],
      [id |-> "r5", title |-> <<68>>, description |-> <<66, 97>>,
       category |-> "operational", status |-> "monitoring", risk_score |-> 15,
       created_at |-> 5] }

Stores == {S \in SUBSET RiskRows : Cardinality(S) <= MaxRisks}

\* values typed into the search box: "", "a", "B", "cd"
SearchTerms == {<<>>, <<97>>, <<66>>, <<99, 100>>}

\* options of the category and status selects (a part of the fixed lists)
CategoryOptions == {"all", "security", "financial"}
StatusOptions == {"all", "identified", "closed"}

\* the column headers that call handleSort
SortFields == {"title", "category", "risk_score", "status"}

\* supabase.from('risks').select('*').order('created_at', {ascending: false})
RECURSIVE selectOrderByCreatedAtDesc(_)
selectOrderByCreatedAtDesc(S) ==
    IF S = {} THEN <<>>
    ELSE LET newest == CHOOSE r \in S : \A q \in S : q.created_at <= r.created_at
         IN <<newest>> \o selectOrderByCreatedAtDesc(S \ {newest})

----------------------------------------------------------------------------
(* RiskManagement: fetchRisks *)

\* the list view is rendered unless the spinner replaces it
controlsRendered == ~(loading /\ Len(risks) = 0)

\* useEffect(() => { fetchRisks(); }, []): up to the awaited read
fetchRisks ==
    /\ fetchPc = "idle"
    /\ loading' = TRUE
    /\ error' = NULL
    /\ fetchPc' = "pending"
    /\ UNCHANGED <<store, risks, searchTerm, filterCategory, filterStatus,
                   filterRiskLevel, sortField, sortDirection,
                   crudVars, classifyVars, assetVars, routeVars>>

\* the read returns rows: setRisks(data || []), finally setLoading(false)
fetchRisksOk ==
    /\ fetchPc = "pending"
    /\ risks' = selectOrderByCreatedAtDesc(store)
    /\ loading' = FALSE
    /\ fetchPc' = "done"
    /\ UNCHANGED <<store, error, searchTerm, filterCategory, filterStatus,
                   filterRiskLevel, sortField, sortDirection,
                   crudVars, classifyVars, assetVars, routeVars>>

\* the read returns fetchError: catch sets the message, finally resets loading
fetchRisksFail ==
    /\ fetchPc = "pending"
    /\ error' = "Failed to load risk data"
    /\ loading' = FALSE
    /\ fetchPc' = "done"
    /\ UNCHANGED <<store, risks, searchTerm, filterCategory, filterStatus,
                   filterRiskLevel, sortField, sortDirection,
                   crudVars, classifyVars, assetVars, routeVars>>

----------------------------------------------------------------------------
(* RiskManagement: filter controls and sort headers *)

setSearchTerm(value) ==
    /\ controlsRendered
    /\ searchTerm' = value
    /\ UNCHANGED <<store, risks, loading, error, filterCategory, filterStatus,
                   filterRiskLevel, sortField, sortDirection, fetchPc,
                   crudVars, classifyVars, assetVars, routeVars>>

setFilterCategory(value) ==
    /\ controlsRendered
    /\ filterCategory' = value
    /\ UNCHANGED <<store, risks, loading, error, searchTerm, filterStatus,
                   filterRiskLevel, sortField, sortDirection, fetchPc,
                   crudVars, classifyVars, assetVars, routeVars>>

setFilterStatus(value) ==
    /\ controlsRendered
    /\ filterStatus' = value
    /\ UNCHANGED <<store, risks, loading, error, searchTerm, filterCategory,
                   filterRiskLevel, sortField, sortDirection, fetchPc,
                   crudVars, classifyVars, assetVars, routeVars>>

setFilterRiskLevel(value) ==
    /\ controlsRendered
    /\ filterRiskLevel' = value
    /\ UNCHANGED <<store, risks, loading, error, searchTerm, filterCategory,
                   filterStatus, sortField, sortDirection, fetchPc,
                   crudVars, classifyVars, assetVars, routeVars>>

\* a handleSort that keeps the previous direction when the key changes
handleSort_keepDirection(field) ==
    /\ controlsRendered
    /\ IF sortField = field
       THEN /\ sortDirection' = (IF sortDirection = "asc" THEN "desc" ELSE "asc")
            /\ UNCHANGED sortField
       ELSE /\ sortField' = field
            /\ UNCHANGED sortDirection
    /\ UNCHANGED <<store, risks, loading, error, searchTerm, filterCategory,
                   filterStatus, filterRiskLevel, fetchPc,
                   crudVars, classifyVars, assetVars, routeVars>>

handleSort(field) ==
    /\ controlsRendered
    /\ IF sortField = field
       THEN /\ sortDirection' = (IF sortDirection = "asc" THEN "desc" ELSE "asc")
            /\ UNCHANGED sortField
       ELSE /\ sortField' = field
            /\ sortDirection' = "desc"
    /\ UNCHANGED <<store, risks, loading, error, searchTerm, filterCategory,
                   filterStatus, filterRiskLevel, fetchPc,
                   crudVars, classifyVars, assetVars, routeVars>>

----------------------------------------------------------------------------
(* RiskManagement: the derived views of one render *)

matchesSearch(risk) ==
    \/ includes(toLowerCase(risk.title), toLowerCase(searchTerm))
    \/ includes(toLowerCase(risk.description), toLowerCase(searchTerm))

matchesCategory(risk) == filterCategory = "all" \/ risk.category = filterCategory

\* a status predicate for which "all" is a status like the others
matchesStatus_allIsAStatus(risk) == risk.status = filterStatus

matchesStatus(risk) == filterStatus = "all" \/ risk.status = filterStatus

\* a filter callback that searches the title only
filterCallback_titleOnly(risk) ==
    /\ includes(toLowerCase(risk.title), toLowerCase(searchTerm))
    /\ matchesCategory(risk)
    /\ matchesStatus(risk)
    /\ matchesRiskLevel(filterRiskLevel, risk.risk_score)

\* the callback of risks.filter(...)
filterCallback(risk) ==
    /\ matchesSearch(risk)
    /\ matchesCategory(risk)
    /\ matchesStatus(risk)
    /\ matchesRiskLevel(filterRiskLevel, risk.risk_score)

filteredRisks == SelectSeq(risks, filterCallback)

\* the UTF-16 code units of the category and status values of RiskRows
codeUnits(str) ==
    CASE str = "security" -> <<115, 101, 99, 117, 114, 105, 116, 121>>
      [] str = "financial" -> <<102, 105, 110, 97, 110, 99, 105, 97, 108>>
      [] str = "operational" -> <<111, 112, 101, 114, 97, 116, 105, 111, 110, 97, 108>>
      [] str = "identified" -> <<105, 100, 101, 110, 116, 105, 102, 105, 101, 100>>
      [] str = "closed" -> <<99, 108, 111, 115, 101, 100>>
      [] str = "mitigated" -> <<109, 105, 116, 105, 103, 97, 116, 101, 100>>
      [] str = "monitoring" -> <<109, 111, 110, 105, 116, 111, 114, 105, 110, 103>>

\* the < of two strings: the first differing code unit decides, a proper
\* prefix is smaller
stringLess(s, t) ==
    \E i \in 1..(Len(t)) :
        /\ i <= Len(s) + 1
        /\ \A j \in 1..(i - 1) : s[j] = t[j]
        /\ (i = Len(s) + 1 \/ s[i] < t[i])

\* aValue < bValue for aValue = a[sortField], bValue = b[sortField]
valueLess(a, b, field) ==
    CASE field = "risk_score" -> a.risk_score < b.risk_score
      [] field = "title" -> stringLess(a.title, b.title)
      [] field = "category" ->
             stringLess(codeUnits(a.category), codeUnits(b.category))
      [] field = "status" ->
             stringLess(codeUnits(a.status), codeUnits(b.status))

\* a comparator that orders ascending whatever the direction is
compareRisks_alwaysAscending(a, b, field, direction) ==
    IF valueLess(a, b, field) THEN 0 - 1
    ELSE IF valueLess(b, a, field) THEN 1 ELSE 0

\* the comparator handed to sort
compareRisks(a, b, field, direction) ==
    IF direction = "asc"
    THEN (IF valueLess(a, b, field) THEN 0 - 1
          ELSE IF valueLess(b, a, field) THEN 1 ELSE 0)
    ELSE (IF valueLess(b, a, field) THEN 0 - 1
          ELSE IF valueLess(a, b, field) THEN 1 ELSE 0)

\* Array.prototype.sort with a consistent comparator is a stable sort: the
\* element at index i comes after the elements that compare smaller and
\* after the equal ones that stood before it
sortRisks(seq, field, direction) ==
    LET rank(arr, i) ==
            1 + Cardinality({j \in 1..Len(arr) :
                    \/ compareRisks(arr[j], arr[i], field, direction) < 0
                    \/ /\ compareRisks(arr[j], arr[i], field, direction) = 0
                       /\ j < i})
        sorted(arr) ==
            [p \in 1..Len(arr) |->
                arr[CHOOSE i \in 1..Len(arr) : rank(arr, i) = p]]
    IN CHOOSE result \in {sorted(arr) : arr \in {seq}} : TRUE

\* const sortedRisks = [...filteredRisks].sort((a, b) => ...)
sortedRisks == sortRisks(filteredRisks, sortField, sortDirection)

\* risks.reduce((sum, r) => sum + r.risk_score, 0)
RECURSIVE sumScores(_)
sumScores(seq) ==
    IF seq = <<>> THEN 0 ELSE Head(seq).risk_score + sumScores(Tail(seq))

\* a quotient that is truncated instead of rounded
MathRound_floor(num, den) == num \div den

\* Math.round of the quotient num / den (den > 0): nearest integer, halves up
MathRound(num, den) == (2 * num + den) \div (2 * den)

isOpen(r) == ~(r.status \in {"closed", "mitigated"})
isCriticalRow(r) == countsAsCritical(r.risk_score)
isHighRow(r) == countsAsHigh(r.risk_score)
isMediumRow(r) == countsAsMedium(r.risk_score)
isLowRow(r) == countsAsLow(r.risk_score)

\* the fields of riskStats, computed over a collection
statsOf(collection) ==
    [total |-> Len(collection),
     critical |-> Len(SelectSeq(collection, isCriticalRow)),
     high |-> Len(SelectSeq(collection, isHighRow)),
     medium |-> Len(SelectSeq(collection, isMediumRow)),
     low |-> Len(SelectSeq(collection, isLowRow)),
     open |-> Len(SelectSeq(collection, isOpen)),
     avgScore |-> IF Len(collection) > 0
                  THEN MathRound(sumScores(collection), Len(collection))
                  ELSE 0]

\* statistics computed over the filtered view
riskStats_overFiltered == statsOf(filteredRisks)

riskStats == statsOf(risks)

----------------------------------------------------------------------------
(* RiskManagement: create, update, delete and the audit trail *)

\* null, as the value of selectedRisk, editingRisk, data and riskData
NoRisk == [id |-> "null"]

\* the object {} of `riskData || {}`
EmptyObject == [id |-> "{}"]

\* the invocations of the three handlers that can be in flight together;
\* a run fixes them at its start
OpIds == DOMAIN ops

\* one invocation of a handler: its position, the values its closure
\* captured, and the external calls it has issued so far, in order
NoInvocation ==
    [pc |-> "none", kind |-> "none", riskId |-> "null", riskTitle |-> <<>>,
     formData |-> NoRisk, editingRisk |-> NoRisk, selectedId |-> "null",
     confirm |-> "none", riskData |-> NoRisk, calls |-> <<>>,
     events |-> <<>>, auditWrite |-> "none", result |-> "none"]

\* an invocation that has returned: what is left of it is its kind, the
\* calls it issued and how its promise settled
returned(inv, result) ==
    [NoInvocation EXCEPT !.pc = "returned", !.kind = inv.kind,
                         !.confirm = inv.confirm, !.calls = inv.calls,
                         !.auditWrite = inv.auditWrite, !.result = result]

free(o) == ops[o].pc \in {"none", "returned"}

\* the first free invocation is the one a new call takes
takes(o) ==
    /\ free(o)
    /\ o = "o1" \/ ~free("o1")
    /\ opsStarted < MaxOps

\* formData handed over by AddEditRiskForm for a new risk (title "N")
CreateForms ==
    { [title |-> <<78>>, description |-> <<>>, category |-> "security",
       status |-> "identified", risk_score |-> 20] }

\* formData handed over by AddEditRiskForm for an edited risk
UpdateForms == { [status |-> "closed"] }

\* the error of a failed delete: a PostgrestError object or a thrown Error
DeleteErrors ==
    { [instanceofError |-> FALSE, message |-> "permission denied"],
      [instanceofError |-> TRUE, message |-> "Failed to fetch"] }

\* the rows of the table before the first operation of the operator
CrudStores == {S \in Stores : \A r \in S : r.id = "r1"}

\* the id the table gives to the row of the n-th invocation
storeAssignedId(n) ==
    CASE n = 1 -> "n1" [] n = 2 -> "n2" [] n = 3 -> "n3" [] OTHER -> "n4"

\* created_at of a new row: later than every row of the table
storeAssignedCreatedAt(S) ==
    LET stamps == {r.created_at : r \in S} \cup {Cardinality(RiskRows)}
    IN 1 + (CHOOSE m \in stamps : \A x \in stamps : x <= m)

\* .insert([{...formData, organization_id, created_by}]).select().single()
insertedRow(formData, S, n) ==
    [id |-> storeAssignedId(n), title |-> formData.title,
     description |-> formData.description, category |-> formData.category,
     status |-> formData.status, risk_score |-> formData.risk_score,
     created_at |-> storeAssignedCreatedAt(S)]

\* .select('title, category, risk_score, status').eq('id', riskId).single()
snapshotOf(row) ==
    [title |-> row.title, category |-> row.category,
     risk_score |-> row.risk_score, status |-> row.status]

\* a logAuditEvent that writes whether or not the profile has an organization
logAuditEvent_writesWithoutOrganization(inv, action, resourceId, details) ==
    [inv EXCEPT !.calls = Append(Append(@, "logAuditEvent"), "audit_logs.insert"),
                !.events = Append(@, [action |-> action,
                                      resource_id |-> resourceId,
                                      details |-> details]),
                !.pc = "awaitAudit"]

\* logAuditEvent(action, resourceId, details) up to its awaited insert:
\* without profile.organization_id it warns and returns
logAuditEvent(inv, action, resourceId, details) ==
    LET called == [inv EXCEPT !.calls = Append(@, "logAuditEvent"),
                              !.events = Append(@, [action |-> action,
                                                    resource_id |-> resourceId,
                                                    details |-> details])]
    IN IF organizationId = ""
       THEN called
       ELSE [called EXCEPT !.calls = Append(@, "audit_logs.insert"),
                           !.pc = "awaitAudit"]

\* the statements after `await logAuditEvent(...)` up to the read that
\* fetchRisks awaits: setLoading(true), setError(null), select
afterLogAuditEvent(o, inv) ==
    /\ selectedRisk' = IF inv.kind = "delete" /\ inv.selectedId = inv.riskId
                       THEN NoRisk ELSE selectedRisk
    /\ loading' = TRUE
    /\ error' = NULL
    /\ ops' = [ops EXCEPT ![o] = [inv EXCEPT !.pc = "awaitRefresh",
                                             !.calls = Append(@, "risks.select")]]

\* the handler resumes after the mutation of the table has succeeded
afterMutation(o, logged) ==
    IF logged.pc = "awaitAudit"
    THEN /\ ops' = [ops EXCEPT ![o] = logged]
         /\ UNCHANGED <<selectedRisk, loading, error>>
    ELSE afterLogAuditEvent(o, logged)

\* handleCreateRisk(formData) up to the awaited insert
handleCreateRisk(o, formData) ==
    /\ controlsRendered /\ showAddForm
    /\ takes(o)
    /\ loading' = TRUE
    /\ error' = NULL
    /\ ops' = [ops EXCEPT ![o] = [NoInvocation EXCEPT
                   !.pc = "awaitInsert", !.kind = "create",
                   !.formData = formData, !.calls = <<"risks.insert">>,
                   !.result = "pending"]]
    /\ opsStarted' = opsStarted + 1
    /\ UNCHANGED <<store, risks, searchTerm, filterCategory, filterStatus,
                   filterRiskLevel, sortField, sortDirection, fetchPc,
                   selectedRisk, showAddForm, showEditForm, editingRisk,
                   organizationId, classifyVars, assetVars, routeVars>>

\* the insert returns the new row: logAuditEvent('risk_created', data.id, ..)
insertOk(o) ==
    /\ ops[o].pc = "awaitInsert"
    /\ LET data == insertedRow(ops[o].formData, store, opsStarted)
           inv == [ops[o] EXCEPT !.riskId = data.id]
       IN /\ store' = store \cup {data}
          /\ afterMutation(o, logAuditEvent(inv, "risk_created", data.id,
                 [risk_title |-> data.title, risk_category |-> data.category,
                  risk_score |-> data.risk_score]))
    /\ UNCHANGED <<risks, searchTerm, filterCategory, filterStatus,
                   filterRiskLevel, sortField, sortDirection, fetchPc,
                   showAddForm, showEditForm, editingRisk, organizationId,
                   opsStarted, classifyVars, assetVars, routeVars>>

\* a handleCreateRisk that reports the store error itself and closes the form
insertFails_swallowed(o) ==
    /\ ops[o].pc = "awaitInsert"
    /\ error' = "Failed to create risk"
    /\ loading' = FALSE
    /\ showAddForm' = FALSE
    /\ ops' = [ops EXCEPT ![o] = returned(ops[o], "resolved")]
    /\ UNCHANGED <<store, risks, searchTerm, filterCategory,
                   filterStatus, filterRiskLevel, sortField, sortDirection,
                   fetchPc, selectedRisk, showEditForm,
                   editingRisk, organizationId, opsStarted,
                   classifyVars, assetVars, routeVars>>

\* the insert returns an error: catch rethrows, finally setLoading(false)
insertFails(o) ==
    /\ ops[o].pc = "awaitInsert"
    /\ loading' = FALSE
    /\ ops' = [ops EXCEPT ![o] = returned(ops[o], "rejected")]
    /\ UNCHANGED <<store, risks, error, searchTerm, filterCategory,
                   filterStatus, filterRiskLevel, sortField, sortDirection,
                   fetchPc, selectedRisk, showAddForm, showEditForm,
                   editingRisk, organizationId, opsStarted,
                   classifyVars, assetVars, routeVars>>

\* handleUpdateRisk(formData) up to the awaited update
\* the handler is a prop handed to the edit form; a call that finds no risk
\* being edited returns at once
handleUpdateRisk(o, formData) ==
    /\ controlsRendered
    /\ takes(o)
    /\ IF editingRisk = NoRisk
       THEN /\ ops' = [ops EXCEPT ![o] = [NoInvocation EXCEPT
                          !.pc = "returned", !.kind = "update",
                          !.result = "resolved"]]
            /\ UNCHANGED <<loading, error>>
       ELSE /\ loading' = TRUE
            /\ error' = NULL
            /\ ops' = [ops EXCEPT ![o] = [NoInvocation EXCEPT
                          !.pc = "awaitUpdate", !.kind = "update",
                          !.riskId = editingRisk.id,
                          !.editingRisk = editingRisk,
                          !.formData = formData,
                          !.calls = <<"risks.update">>,
                          !.result = "pending"]]
    /\ opsStarted' = opsStarted + 1
    /\ UNCHANGED <<store, risks, searchTerm, filterCategory, filterStatus,
                   filterRiskLevel, sortField, sortDirection, fetchPc,
                   selectedRisk, showAddForm, showEditForm, editingRisk,
                   organizationId, classifyVars, assetVars, routeVars>>

\* an update that is logged under the action of a create
updateOk_logsAsCreated(o) ==
    /\ ops[o].pc = "awaitUpdate"
    /\ \E row \in store :
          /\ row.id = ops[o].riskId
          /\ LET data == [row EXCEPT !.status = ops[o].formData.status]
             IN /\ store' = (store \ {row}) \cup {data}
                /\ afterMutation(o, logAuditEvent(ops[o], "risk_created",
                       data.id,
                       [risk_title |-> data.title,
                        previous_status |-> ops[o].editingRisk.status,
                        new_status |-> data.status]))
    /\ UNCHANGED <<risks, searchTerm, filterCategory, filterStatus,
                   filterRiskLevel, sortField, sortDirection, fetchPc,
                   showAddForm, showEditForm, editingRisk, organizationId,
                   opsStarted, classifyVars, assetVars, routeVars>>

\* the update returns the changed row: logAuditEvent('risk_updated', ..)
updateOk(o) ==
    /\ ops[o].pc = "awaitUpdate"
    /\ \E row \in store :
          /\ row.id = ops[o].riskId
          /\ LET data == [row EXCEPT !.status = ops[o].formData.status]
             IN /\ store' = (store \ {row}) \cup {data}
                /\ afterMutation(o, logAuditEvent(ops[o], "risk_updated",
                       data.id,
                       [risk_title |-> data.title,
                        previous_status |-> ops[o].editingRisk.status,
                        new_status |-> data.status]))
    /\ UNCHANGED <<risks, searchTerm, filterCategory, filterStatus,
                   filterRiskLevel, sortField, sortDirection, fetchPc,
                   showAddForm, showEditForm, editingRisk, organizationId,
                   opsStarted, classifyVars, assetVars, routeVars>>

\* an update that fails and is written to the audit trail all the same
updateFails_auditsAnyway(o) ==
    /\ ops[o].pc = "awaitUpdate"
    /\ loading' = FALSE
    /\ ops' = [ops EXCEPT ![o] =
                  returned(logAuditEvent(ops[o], "risk_updated", ops[o].riskId,
                                         [risk_title |-> ops[o].editingRisk.title]),
                           "rejected")]
    /\ UNCHANGED <<store, risks, error, searchTerm, filterCategory,
                   filterStatus, filterRiskLevel, sortField, sortDirection,
                   fetchPc, selectedRisk, showAddForm, showEditForm,
                   editingRisk, organizationId, opsStarted,
                   classifyVars, assetVars, routeVars>>

\* the update returns an error: catch rethrows, finally setLoading(false)
updateFails(o) ==
    /\ ops[o].pc = "awaitUpdate"
    /\ loading' = FALSE
    /\ ops' = [ops EXCEPT ![o] = returned(ops[o], "rejected")]
    /\ UNCHANGED <<store, risks, error, searchTerm, filterCategory,
                   filterStatus, filterRiskLevel, sortField, sortDirection,
                   fetchPc, selectedRisk, showAddForm, showEditForm,
                   editingRisk, organizationId, opsStarted,
                   classifyVars, assetVars, routeVars>>

\* the risks of the table rows of this render
RowsOnScreen == {sortedRisks[i] : i \in 1..Len(sortedRisks)}

\* a handleDeleteRisk that asks for the confirmation after reading the row
handleDeleteRisk_confirmsLate(o, riskId, riskTitle, accepted) ==
    /\ takes(o)
    /\ loading' = TRUE
    /\ error' = NULL
    /\ ops' = [ops EXCEPT ![o] = [NoInvocation EXCEPT
                  !.pc = IF accepted THEN "awaitSnapshot" ELSE "returned",
                  !.kind = "delete",
                  !.confirm = IF accepted THEN "accepted" ELSE "declined",
                  !.riskId = IF accepted THEN riskId ELSE "null",
                  !.riskTitle = IF accepted THEN riskTitle ELSE <<>>,
                  !.selectedId = IF accepted THEN selectedRisk.id ELSE "null",
                  !.calls = <<"risks.selectOne", "confirm">>,
                  !.result = IF accepted THEN "pending" ELSE "resolved"]]
    /\ opsStarted' = opsStarted + 1

\* handleDeleteRisk(riskId, riskTitle) up to the awaited read of the row;
\* accepted is the answer of confirm()
handleDeleteRisk(o, riskId, riskTitle, accepted) ==
    /\ takes(o)
    /\ IF ~accepted
       THEN /\ ops' = [ops EXCEPT ![o] = [NoInvocation EXCEPT
                          !.pc = "returned", !.kind = "delete",
                          !.confirm = "declined",
                          !.calls = <<"confirm">>,
                          !.result = "resolved"]]
            /\ UNCHANGED <<loading, error>>
       ELSE /\ loading' = TRUE
            /\ error' = NULL
            /\ ops' = [ops EXCEPT ![o] = [NoInvocation EXCEPT
                          !.pc = "awaitSnapshot", !.kind = "delete",
                          !.confirm = "accepted",
                          !.riskId = riskId, !.riskTitle = riskTitle,
                          !.selectedId = selectedRisk.id,
                          !.calls = <<"confirm", "risks.selectOne">>,
                          !.result = "pending"]]
    /\ opsStarted' = opsStarted + 1

\* the delete button of a table row: handleDeleteRisk(risk.id, risk.title)
rowDeleteClicked(o, risk, accepted) ==
    /\ controlsRendered
    /\ risk \in RowsOnScreen
    /\ handleDeleteRisk(o, risk.id, risk.title, accepted)
    /\ UNCHANGED <<store, risks, searchTerm, filterCategory, filterStatus,
                   filterRiskLevel, sortField, sortDirection, fetchPc,
                   selectedRisk, showAddForm, showEditForm, editingRisk,
                   organizationId, classifyVars, assetVars, routeVars>>

\* the delete button of the detail view:
\* handleDeleteRisk(selectedRisk.id, selectedRisk.title); setSelectedRisk(null)
detailDeleteClicked(o, accepted) ==
    /\ controlsRendered
    /\ selectedRisk # NoRisk
    /\ handleDeleteRisk(o, selectedRisk.id, selectedRisk.title, accepted)
    /\ selectedRisk' = NoRisk
    /\ UNCHANGED <<store, risks, searchTerm, filterCategory, filterStatus,
                   filterRiskLevel, sortField, sortDirection, fetchPc,
                   showAddForm, showEditForm, editingRisk,
                   organizationId, classifyVars, assetVars, routeVars>>

\* the statements after the awaited read of the row: the delete is issued
deleteIssued(o, riskData) ==
    /\ ops' = [ops EXCEPT ![o] = [@ EXCEPT !.pc = "awaitDelete",
                                           !.riskData = riskData,
                                           !.calls = Append(@, "risks.delete")]]
    /\ UNCHANGED <<store, risks, loading, error, searchTerm, filterCategory,
                   filterStatus, filterRiskLevel, sortField, sortDirection,
                   fetchPc, selectedRisk, showAddForm, showEditForm,
                   editingRisk, organizationId, opsStarted,
                   classifyVars, assetVars, routeVars>>

\* the read of the row returns: its four fields, or null when no row has
\* the id
snapshotOk(o) ==
    /\ ops[o].pc = "awaitSnapshot"
    /\ \E riskData \in {snapshotOf(r) : r \in {q \in store : q.id = ops[o].riskId}}
                       \cup (IF \E q \in store : q.id = ops[o].riskId
                             THEN {} ELSE {NoRisk}) :
          deleteIssued(o, riskData)

\* the read of the row returns an error, which the handler does not look at
snapshotFails(o) ==
    /\ ops[o].pc = "awaitSnapshot"
    /\ deleteIssued(o, NoRisk)

\* the delete returns without error: logAuditEvent('risk_deleted', riskId, ..)
deleteOk(o) ==
    /\ ops[o].pc = "awaitDelete"
    /\ store' = {r \in store : r.id # ops[o].riskId}
    /\ afterMutation(o, logAuditEvent(ops[o], "risk_deleted", ops[o].riskId,
           [risk_title |-> ops[o].riskTitle,
            risk_details |-> IF ops[o].riskData = NoRisk
                             THEN EmptyObject ELSE ops[o].riskData]))
    /\ UNCHANGED <<risks, searchTerm, filterCategory, filterStatus,
                   filterRiskLevel, sortField, sortDirection, fetchPc,
                   showAddForm, showEditForm, editingRisk, organizationId,
                   opsStarted, classifyVars, assetVars, routeVars>>

\* the delete returns an error: catch sets the message, finally
\* setLoading(false)
deleteFails(o, err) ==
    /\ ops[o].pc = "awaitDelete"
    /\ error' = IF err.instanceofError THEN err.message
                ELSE "Failed to delete risk"
    /\ loading' = FALSE
    /\ ops' = [ops EXCEPT ![o] = returned(ops[o], "resolved")]
    /\ UNCHANGED <<store, risks, searchTerm, filterCategory,
                   filterStatus, filterRiskLevel, sortField, sortDirection,
                   fetchPc, selectedRisk, showAddForm, showEditForm,
                   editingRisk, organizationId, opsStarted,
                   classifyVars, assetVars, routeVars>>

\* the insert into audit_logs returns without error
auditInsertOk(o) ==
    /\ ops[o].pc = "awaitAudit"
    /\ afterLogAuditEvent(o, [ops[o] EXCEPT !.auditWrite = "persisted"])
    /\ UNCHANGED <<store, risks, searchTerm, filterCategory,
                   filterStatus, filterRiskLevel, sortField, sortDirection,
                   fetchPc, showAddForm, showEditForm,
                   editingRisk, organizationId, opsStarted,
                   classifyVars, assetVars, routeVars>>

\* an audit failure that reaches the handler as an exception
auditInsertFails_thrown(o) ==
    /\ ops[o].pc = "awaitAudit"
    /\ error' = IF ops[o].kind = "delete" THEN "Failed to delete risk"
                ELSE error
    /\ loading' = FALSE
    /\ ops' = [ops EXCEPT ![o] =
                  returned([ops[o] EXCEPT !.auditWrite = "failed"],
                           IF ops[o].kind = "delete" THEN "resolved"
                           ELSE "rejected")]
    /\ UNCHANGED <<store, risks, searchTerm, filterCategory,
                   filterStatus, filterRiskLevel, sortField, sortDirection,
                   fetchPc, selectedRisk, showAddForm, showEditForm,
                   editingRisk, organizationId, opsStarted,
                   classifyVars, assetVars, routeVars>>

\* the insert into audit_logs returns an error or throws: logAuditEvent
\* writes it to the console and returns
auditInsertFails(o) ==
    /\ ops[o].pc = "awaitAudit"
    /\ afterLogAuditEvent(o, [ops[o] EXCEPT !.auditWrite = "failed"])
    /\ UNCHANGED <<store, risks, searchTerm, filterCategory,
                   filterStatus, filterRiskLevel, sortField, sortDirection,
                   fetchPc, showAddForm, showEditForm,
                   editingRisk, organizationId, opsStarted,
                   classifyVars, assetVars, routeVars>>

\* the statements of a handler after `await fetchRisks()`
afterFetchRisks(o) ==
    /\ showAddForm' = IF ops[o].kind = "create" THEN FALSE ELSE showAddForm
    /\ showEditForm' = IF ops[o].kind = "update" THEN FALSE ELSE showEditForm
    /\ editingRisk' = IF ops[o].kind = "update" THEN NoRisk ELSE editingRisk
    /\ ops' = [ops EXCEPT ![o] = returned(ops[o], "resolved")]

\* a refresh whose failed read empties the collection
refreshFails_clearsRisks(o) ==
    /\ ops[o].pc = "awaitRefresh"
    /\ risks' = <<>>
    /\ error' = "Failed to load risk data"
    /\ loading' = FALSE
    /\ afterFetchRisks(o)
    /\ UNCHANGED <<store, searchTerm, filterCategory, filterStatus,
                   filterRiskLevel, sortField, sortDirection, fetchPc,
                   selectedRisk, organizationId, opsStarted,
                   classifyVars, assetVars, routeVars>>

\* the read of fetchRisks, awaited by a handler, returns rows
refreshOk(o) ==
    /\ ops[o].pc = "awaitRefresh"
    /\ risks' = selectOrderByCreatedAtDesc(store)
    /\ loading' = FALSE
    /\ afterFetchRisks(o)
    /\ UNCHANGED <<store, error, searchTerm, filterCategory, filterStatus,
                   filterRiskLevel, sortField, sortDirection, fetchPc,
                   selectedRisk, organizationId, opsStarted,
                   classifyVars, assetVars, routeVars>>

\* the read of fetchRisks, awaited by a handler, returns fetchError
refreshFails(o) ==
    /\ ops[o].pc = "awaitRefresh"
    /\ error' = "Failed to load risk data"
    /\ loading' = FALSE
    /\ afterFetchRisks(o)
    /\ UNCHANGED <<store, risks, searchTerm, filterCategory, filterStatus,
                   filterRiskLevel, sortField, sortDirection, fetchPc,
                   selectedRisk, organizationId, opsStarted,
                   classifyVars, assetVars, routeVars>>

\* the buttons that open and close the forms and the detail view
setShowAddForm(value) ==
    /\ controlsRendered
    /\ showAddForm' = value
    /\ UNCHANGED <<store, risks, loading, error, searchTerm, filterCategory,
                   filterStatus, filterRiskLevel, sortField, sortDirection,
                   fetchPc, selectedRisk, showEditForm, editingRisk,
                   organizationId, ops, opsStarted, classifyVars, assetVars, routeVars>>

setSelectedRisk(risk) ==
    /\ controlsRendered
    /\ \/ risk \in RowsOnScreen
       \/ risk = NoRisk /\ selectedRisk # NoRisk
    /\ selectedRisk' = risk
    /\ UNCHANGED <<store, risks, loading, error, searchTerm, filterCategory,
                   filterStatus, filterRiskLevel, sortField, sortDirection,
                   fetchPc, showAddForm, showEditForm, editingRisk,
                   organizationId, ops, opsStarted, classifyVars, assetVars, routeVars>>

openEditForm(risk) ==
    /\ controlsRendered
    /\ risk \in RowsOnScreen
    /\ editingRisk' = risk
    /\ showEditForm' = TRUE
    /\ UNCHANGED <<store, risks, loading, error, searchTerm, filterCategory,
                   filterStatus, filterRiskLevel, sortField, sortDirection,
                   fetchPc, selectedRisk, showAddForm,
                   organizationId, ops, opsStarted, classifyVars, assetVars, routeVars>>

\* onClose of the edit form: setShowEditForm(false), setEditingRisk(null)
closeEditForm ==
    /\ controlsRendered
    /\ showEditForm
    /\ showEditForm' = FALSE
    /\ editingRisk' = NoRisk
    /\ UNCHANGED <<store, risks, loading, error, searchTerm, filterCategory,
                   filterStatus, filterRiskLevel, sortField, sortDirection,
                   fetchPc, selectedRisk, showAddForm,
                   organizationId, ops, opsStarted, classifyVars, assetVars, routeVars>>

----------------------------------------------------------------------------
(* AddAssetForm: inputs *)

\* at most MaxMitigations mitigations are applied to the asset
MaxMitigations == 2

\* formData.ai_risk_score.overall of the initial form state
DefaultOverall == 25

\* the mitigations the selector offers
MitigationCatalog ==
    { [id |-> "m1", applied_risk_reduction_score |-> 15],
      [id |-> "m2", applied_risk_reduction_score |-> 10] }

\* a mitigation that is applied without reducing the score
ZeroMitigation == [id |-> "m3", applied_risk_reduction_score |-> 0]

RECURSIVE SeqsUpTo(_, _)
SeqsUpTo(S, n) ==
    IF n = 0 THEN {<<>>}
    ELSE LET shorter == SeqsUpTo(S, n - 1)
         IN shorter \cup {Append(q, x) : q \in shorter, x \in S}

MitigationLists ==
    SeqsUpTo(MitigationCatalog, MaxMitigations) \cup {<<ZeroMitigation>>}

\* aiResult.score of a successful estimator call
EstimatorScores == {10, 40}

\* the required fields of the form at the submit event ("" is an empty input)
FormInputs ==
    [name : {"", "HQ"}, city : {"", "Oslo"}, country : {"", "NO"},
     officerName : {"", "Kim"}]

\* what onSubmit rejects with: an Error with a message, or another value
OnSubmitRejections ==
    { [isError |-> TRUE, message |-> "Request failed"],
      [isError |-> FALSE, message |-> ""] }

\* the handleSubmit invocations that can be in flight at the same time
Invocations == {"h1", "h2"}

\* a value of type AppliedMitigation[] | null
Some(list) == [isNull |-> FALSE, value |-> list]
None == [isNull |-> TRUE, value |-> <<>>]

----------------------------------------------------------------------------
(* AddAssetForm: handleSubmit *)

\* the setter of the mitigations state, called by the mitigation selector
setMitigations(list) ==
    /\ mitigations' = list
    /\ UNCHANGED <<aLoading, aError, aiScoring, frames>>
    /\ UNCHANGED <<classifyVars, riskVars, personnelVars,
                 routeVars>>

\* !formData.name || !formData.location.city || !formData.location.country
\*   || !formData.responsible_officer.name
missingRequiredField(fd) ==
    fd.name = "" \/ fd.city = "" \/ fd.country = "" \/ fd.officerName = ""

\* an invocation whose estimator call is pending when a newer submission
\* starts is marked: its request is no longer the latest one
supersede(frame) ==
    IF frame.pc = "awaitAI" THEN [frame EXCEPT !.superseded = TRUE] ELSE frame

\* a handleSubmit that validates the asset name only
handleSubmit_validatesNameOnly(h, fd) ==
    /\ frames[h].pc = "none"
    /\ IF fd.name = ""
       THEN /\ aError' = "Please fill in all required fields"
            /\ aLoading' = FALSE
            /\ UNCHANGED <<aiScoring, frames>>
       ELSE /\ aError' = NULL
            /\ aLoading' = TRUE
            /\ aiScoring' = TRUE
            /\ frames' = [g \in Invocations |->
                   IF g = h
                   THEN [pc |-> "awaitAI", formData |-> fd,
                         mitigations |-> mitigations, onSubmitCalls |-> 0,
                         superseded |-> FALSE]
                   ELSE supersede(frames[g])]
    /\ UNCHANGED mitigations
    /\ UNCHANGED <<classifyVars, riskVars, personnelVars,
                 routeVars>>

\* handleSubmit up to the awaited estimator call; a missing required field
\* throws before it and the catch / finally blocks end the invocation
handleSubmit(h, fd) ==
    /\ frames[h].pc = "none"
    /\ IF missingRequiredField(fd)
       THEN /\ aError' = "Please fill in all required fields"
            /\ aLoading' = FALSE
            /\ UNCHANGED <<aiScoring, frames>>
       ELSE /\ aError' = NULL
            /\ aLoading' = TRUE
            /\ aiScoring' = TRUE
            /\ frames' = [g \in Invocations |->
                   IF g = h
                   THEN [pc |-> "awaitAI", formData |-> fd,
                         mitigations |-> mitigations, onSubmitCalls |-> 0,
                         superseded |-> FALSE]
                   ELSE supersede(frames[g])]
    /\ UNCHANGED mitigations
    /\ UNCHANGED <<classifyVars, riskVars, personnelVars,
                 routeVars>>

\* a reduction that counts each mitigation id once
totalRiskReductionOf_deduplicated(list) ==
    LET ids == {list[i].id : i \in 1..Len(list)}
        first(id) == CHOOSE i \in 1..Len(list) :
                        /\ list[i].id = id
                        /\ \A j \in 1..(i - 1) : list[j].id # id
        RECURSIVE sum(_)
        sum(S) == IF S = {} THEN 0
                  ELSE LET id == CHOOSE x \in S : TRUE
                       IN list[first(id)].applied_risk_reduction_score
                             + sum(S \ {id})
    IN sum(ids)

\* mitigations.reduce((sum, m) => sum + m.applied_risk_reduction_score, 0)
RECURSIVE totalRiskReductionOf(_)
totalRiskReductionOf(list) ==
    IF list = <<>> THEN 0
    ELSE Head(list).applied_risk_reduction_score
             + totalRiskReductionOf(Tail(list))

\* Math.max(0, x)
MathMax0(x) == IF x > 0 THEN x ELSE 0

\* an effective score without the floor at 0
effectiveRiskScoreOf_noFloor(overall, totalRiskReduction) ==
    overall - totalRiskReduction

\* const effectiveRiskScore = Math.max(0, aiRiskScore.overall - totalRiskReduction)
effectiveRiskScoreOf(overall, totalRiskReduction) ==
    MathMax0(overall - totalRiskReduction)

\* an updatedRiskScore that is flagged as mitigated by any mitigation
updatedRiskScoreOf_flagsAnyMitigation(overall, list) ==
    LET totalRiskReduction == totalRiskReductionOf(list)
        effectiveRiskScore == effectiveRiskScoreOf(overall, totalRiskReduction)
    IN [overall |-> effectiveRiskScore,
        mitigationApplied |-> Len(list) > 0,
        originalScore |-> overall,
        totalRiskReduction |-> totalRiskReduction]

\* an updatedRiskScore whose originalScore is the effective score
updatedRiskScoreOf_overwritten(overall, list) ==
    LET totalRiskReduction == totalRiskReductionOf(list)
        effectiveRiskScore == effectiveRiskScoreOf(overall, totalRiskReduction)
    IN [overall |-> effectiveRiskScore,
        mitigationApplied |-> totalRiskReduction > 0,
        originalScore |-> effectiveRiskScore,
        totalRiskReduction |-> totalRiskReduction]

\* const updatedRiskScore = {...aiRiskScore, overall: effectiveRiskScore, ...}
updatedRiskScoreOf(overall, list) ==
    LET totalRiskReduction == totalRiskReductionOf(list)
        effectiveRiskScore == effectiveRiskScoreOf(overall, totalRiskReduction)
    IN [overall |-> effectiveRiskScore,
        mitigationApplied |-> totalRiskReduction > 0,
        originalScore |-> overall,
        totalRiskReduction |-> totalRiskReduction]

\* const finalAssetData: AssetInsert = {...}
finalAssetDataOf(fd, overall, list) ==
    [name |-> fd.name,
     city |-> fd.city,
     country |-> fd.country,
     officerName |-> fd.officerName,
     ai_risk_score |-> updatedRiskScoreOf(overall, list),
     mitigations |-> IF Len(list) > 0 THEN Some(list) ELSE None]

\* handleSubmit from the end of the estimator call to the awaited onSubmit:
\* finally setAiScoring(false), the reduction, the record, onSubmit(record)
submitWithScore(h, overall, failed) ==
    /\ aiScoring' = FALSE
    /\ frames' = [frames EXCEPT ![h] =
           [pc |-> "awaitOnSubmit",
            mitigations |-> frames[h].mitigations,
            estimatorFailed |-> failed,
            superseded |-> frames[h].superseded,
            aiRiskScoreOverall |-> overall,
            finalAssetData |-> finalAssetDataOf(frames[h].formData, overall,
                                                frames[h].mitigations),
            onSubmitCalls |-> frames[h].onSubmitCalls + 1]]
    /\ UNCHANGED <<mitigations, aLoading, aError>>
    /\ UNCHANGED <<classifyVars, riskVars, personnelVars,
                 routeVars>>

\* aiService.scoreAssetRisk resolves: aiRiskScore.overall = aiResult.score
scoreAssetRiskResolves(h, score) ==
    /\ frames[h].pc = "awaitAI"
    /\ submitWithScore(h, score, FALSE)

\* an estimator failure that ends the submission with an error
scoreAssetRiskRejects_abort(h) ==
    /\ frames[h].pc = "awaitAI"
    /\ aiScoring' = FALSE
    /\ aError' = "Failed to add asset"
    /\ aLoading' = FALSE
    /\ frames' = [frames EXCEPT ![h] = [pc |-> "none"]]
    /\ UNCHANGED mitigations
    /\ UNCHANGED <<classifyVars, riskVars, personnelVars,
                 routeVars>>

\* aiService.scoreAssetRisk throws: the inner catch logs, aiRiskScore stays
\* { ...formData.ai_risk_score }
scoreAssetRiskRejects(h) ==
    /\ frames[h].pc = "awaitAI"
    /\ submitWithScore(h, DefaultOverall, TRUE)

\* onSubmit resolves: finally setLoading(false)
onSubmitResolves(h) ==
    /\ frames[h].pc = "awaitOnSubmit"
    /\ aLoading' = FALSE
    /\ frames' = [frames EXCEPT ![h] = [pc |-> "none"]]
    /\ UNCHANGED <<mitigations, aError, aiScoring>>
    /\ UNCHANGED <<classifyVars, riskVars, personnelVars,
                 routeVars>>

\* onSubmit rejects: catch sets the message, finally setLoading(false)
onSubmitRejects(h, err) ==
    /\ frames[h].pc = "awaitOnSubmit"
    /\ aError' = (IF err.isError THEN err.message ELSE "Failed to add asset")
    /\ aLoading' = FALSE
    /\ frames' = [frames EXCEPT ![h] = [pc |-> "none"]]
    /\ UNCHANGED <<mitigations, aiScoring>>
    /\ UNCHANGED <<classifyVars, riskVars, personnelVars,
                 routeVars>>

----------------------------------------------------------------------------
(* AddAssetForm: authorized personnel *)

\* rows of personnel_details: name "Al" / "Bo" / "al", employee_id "E1" /
\* "E2" / "E3", department "IT" / "Ops" / "it"
PersonnelRows ==
    { [id |-> "p1", name |-> <<65, 108>>, employee_id |-> <<69, 49>>,
       department |-> <<73, 84>>],
      [id |-> "p2", name |-> <<66, 111>>, employee_id |-> <<69, 50>>,
       department |-> <<79, 112, 115>>],
      [id |-> "p3", name |-> <<97, 108>>, employee_id |-> <<69, 51>>,
       department |-> <<105, 116>>] }

\* values typed into the personnel search box: "", "a", "E", "it", "zz"
PersonnelSearchTerms ==
    {<<>>, <<97>>, <<69>>, <<105, 116>>, <<122, 122>>}

\* .select('id, name, employee_id, department, current_location').order('name')
RECURSIVE selectOrderByName(_)
selectOrderByName(S) ==
    IF S = {} THEN <<>>
    ELSE LET first == CHOOSE r \in S :
                          \A q \in S : q = r \/ stringLess(r.name, q.name)
         IN <<first>> \o selectOrderByName(S \ {first})

\* useEffect(() => { fetchPersonnel(); }, []): up to the awaited read
fetchPersonnel ==
    /\ personnelPc = "idle"
    /\ loadingPersonnel' = TRUE
    /\ personnelPc' = "pending"
    /\ UNCHANGED <<allPersonnel, personnelSearchTerm, authorized,
                   personnelTable>>
    /\ UNCHANGED <<mitigations, aLoading, aError, aiScoring, frames,
                   classifyVars, riskVars, routeVars>>

\* the read returns rows: setAllPersonnel(data || [])
fetchPersonnelOk ==
    /\ personnelPc = "pending"
    /\ allPersonnel' = selectOrderByName(personnelTable)
    /\ loadingPersonnel' = FALSE
    /\ personnelPc' = "done"
    /\ UNCHANGED <<personnelSearchTerm, authorized, personnelTable>>
    /\ UNCHANGED <<mitigations, aLoading, aError, aiScoring, frames,
                   classifyVars, riskVars, routeVars>>

\* the read returns an error: it is logged, allPersonnel stays empty
fetchPersonnelFail ==
    /\ personnelPc = "pending"
    /\ loadingPersonnel' = FALSE
    /\ personnelPc' = "done"
    /\ UNCHANGED <<allPersonnel, personnelSearchTerm, authorized,
                   personnelTable>>
    /\ UNCHANGED <<mitigations, aLoading, aError, aiScoring, frames,
                   classifyVars, riskVars, routeVars>>

setPersonnelSearchTerm(value) ==
    /\ personnelSearchTerm' = value
    /\ UNCHANGED <<allPersonnel, loadingPersonnel, authorized, personnelPc,
                   personnelTable>>
    /\ UNCHANGED <<mitigations, aLoading, aError, aiScoring, frames,
                   classifyVars, riskVars, routeVars>>

\* formData.personnel.authorized.includes(person.id)
isSelected(person) == \E i \in 1..Len(authorized) : authorized[i] = person.id

\* the callback of allPersonnel.filter for the search results
matchesPersonnelSearch(person) ==
    \/ includes(toLowerCase(person.name), toLowerCase(personnelSearchTerm))
    \/ includes(toLowerCase(person.employee_id),
                toLowerCase(personnelSearchTerm))
    \/ includes(toLowerCase(person.department),
                toLowerCase(personnelSearchTerm))

\* search results that also list the persons already selected
filteredPersonnel_listsSelected ==
    LET keep(person) == matchesPersonnelSearch(person)
    IN SelectSeq(allPersonnel, keep)

filteredPersonnel ==
    LET keep(person) == matchesPersonnelSearch(person) /\ ~isSelected(person)
    IN SelectSeq(allPersonnel, keep)

selectedPersonnel ==
    LET keep(person) == isSelected(person)
    IN SelectSeq(allPersonnel, keep)

\* the Add button of a search result, rendered while the search term is
\* not empty: updateFormData('personnel.authorized', [...authorized, id])
addPersonnel(personnelId) ==
    /\ personnelSearchTerm # <<>>
    /\ \E i \in 1..Len(filteredPersonnel) : filteredPersonnel[i].id = personnelId
    /\ authorized' = Append(authorized, personnelId)
    /\ UNCHANGED <<allPersonnel, personnelSearchTerm, loadingPersonnel,
                   personnelPc, personnelTable>>
    /\ UNCHANGED <<mitigations, aLoading, aError, aiScoring, frames,
                   classifyVars, riskVars, routeVars>>

\* a removePersonnel that drops the first occurrence and what follows it
removePersonnel_truncates(personnelId) ==
    /\ \E i \in 1..Len(selectedPersonnel) : selectedPersonnel[i].id = personnelId
    /\ authorized' =
           SubSeq(authorized, 1,
                  (CHOOSE i \in 1..Len(authorized) :
                      /\ authorized[i] = personnelId
                      /\ \A j \in 1..(i - 1) : authorized[j] # personnelId) - 1)
    /\ UNCHANGED <<allPersonnel, personnelSearchTerm, loadingPersonnel,
                   personnelPc, personnelTable>>
    /\ UNCHANGED <<mitigations, aLoading, aError, aiScoring, frames,
                   classifyVars, riskVars, routeVars>>

\* the remove button of a selected person:
\* updateFormData('personnel.authorized', authorized.filter(id => id !== personnelId))
removePersonnel(personnelId) ==
    /\ \E i \in 1..Len(selectedPersonnel) : selectedPersonnel[i].id = personnelId
    /\ authorized' = LET keep(id) == id # personnelId
                     IN SelectSeq(authorized, keep)
    /\ UNCHANGED <<allPersonnel, personnelSearchTerm, loadingPersonnel,
                   personnelPc, personnelTable>>
    /\ UNCHANGED <<mitigations, aLoading, aError, aiScoring, frames,
                   classifyVars, riskVars, routeVars>>

----------------------------------------------------------------------------
(* Severity classifier: one score through the three uses of the bands *)

classifyScore ==
    /\ cLevel' = getRiskLevel(cScore)
    /\ UNCHANGED <<cScore, cBand, cMatches, cCounted>>
    /\ UNCHANGED <<riskVars, assetVars, routeVars>>

filterByRiskLevel ==
    /\ cMatches' = (IF matchesRiskLevel(cBand, cScore)
                    THEN "accepted" ELSE "rejected")
    /\ UNCHANGED <<cScore, cBand, cLevel, cCounted>>
    /\ UNCHANGED <<riskVars, assetVars, routeVars>>

countInBands ==
    /\ cCounted' = countedBands(cScore)
    /\ UNCHANGED <<cScore, cBand, cLevel, cMatches>>
    /\ UNCHANGED <<riskVars, assetVars, routeVars>>

----------------------------------------------------------------------------
(* ProtectedRoute *)

\* values of the props and of the profile, tagged with their JavaScript type
Null == [type |-> "null"]
Undefined == [type |-> "undefined"]
Str(value) == [type |-> "string", value |-> value]
Arr(items) == [type |-> "array", items |-> items]
\* a string that new Date() parses to the time `time`
DateString(time) == [type |-> "date string", time |-> time]
Node(name) == [type |-> "node", name |-> name]

\* ToBoolean of these values: null, undefined and '' are falsy
truthy(x) == x.type \notin {"null", "undefined"} /\ x # Str("")

\* new Date(x) > new Date() at time t: a string that is no date gives an
\* Invalid Date, which compares false
laterThanNow(x, t) == x.type = "date string" /\ x.time > t

\* profile.account_locked_until: absent, empty, no date, or a date
LockValues ==
    {Null, Str(""), Str("never")} \cup {DateString(time) : time \in 1..MaxTime}

Users == {Null, [type |-> "user", id |-> "u1"]}

Profiles ==
    {Null} \cup {[type |-> "profile", account_locked_until |-> lock] :
                    lock \in LockValues}

\* the values useAuth() can return; hasPermission and hasRole stand for the
\* answers of the two functions to the props of this route
AuthStates ==
    [user : Users, profile : Profiles, loading : BOOLEAN,
     hasPermission : BOOLEAN, hasRole : BOOLEAN]

\* requiredPermission?: string
RequiredPermissions == {Undefined, Str(""), Str("risks.read")}

\* requiredRole?: string | string[]
RequiredRoles == {Undefined, Str("admin"), Arr(<<>>), Arr(<<"admin", "analyst">>)}

\* fallback?: React.ReactNode
Fallbacks == {Undefined, Node("fallback")}

RouteProps ==
    [requiredPermission : RequiredPermissions, requiredRole : RequiredRoles,
     fallback : Fallbacks]

\* a ProtectedRoute that looks at the profile before it looks at the user
ProtectedRoute_profileBeforeUser(a, p, t) ==
    IF a.loading THEN "Loading..."
    ELSE IF ~truthy(a.profile) THEN "Setting up your profile..."
    ELSE IF ~truthy(a.user) THEN "Navigate to /login"
    ELSE IF /\ truthy(a.profile.account_locked_until)
            /\ laterThanNow(a.profile.account_locked_until, t)
         THEN "Account Locked"
    ELSE IF truthy(p.requiredPermission) /\ ~a.hasPermission
         THEN IF truthy(p.fallback) THEN "fallback" ELSE "Access Denied"
    ELSE IF truthy(p.requiredRole) /\ ~a.hasRole
         THEN IF truthy(p.fallback) THEN "fallback" ELSE "Access Denied"
    ELSE "children"

\* what ProtectedRoute returns for the values a of useAuth(), the props p
\* and the time t
ProtectedRoute(a, p, t) ==
    IF a.loading THEN "Loading..."
    ELSE IF ~truthy(a.user) THEN "Navigate to /login"
    ELSE IF ~truthy(a.profile) THEN "Setting up your profile..."
    ELSE IF /\ truthy(a.profile.account_locked_until)
            /\ laterThanNow(a.profile.account_locked_until, t)
         THEN "Account Locked"
    ELSE IF truthy(p.requiredPermission) /\ ~a.hasPermission
         THEN IF truthy(p.fallback) THEN "fallback" ELSE "Access Denied"
    ELSE IF truthy(p.requiredRole) /\ ~a.hasRole
         THEN IF truthy(p.fallback) THEN "fallback" ELSE "Access Denied"
    ELSE "children"

\* useAuth() returns new values and the route renders again
authChanged(a, t) ==
    /\ a # auth
    /\ t \in {now, now + 1} /\ t <= MaxTime
    /\ auth' = a
    /\ now' = t
    /\ rendered' = ProtectedRoute(a, props, t)
    /\ UNCHANGED <<props, classifyVars, riskVars, assetVars>>

\* the parent renders the route again, with the same props, at a later time
parentRendered ==
    /\ now < MaxTime
    /\ now' = now + 1
    /\ rendered' = ProtectedRoute(auth, props, now + 1)
    /\ UNCHANGED <<auth, props, classifyVars, riskVars, assetVars>>

----------------------------------------------------------------------------
(* Initial states *)

\* no score has been classified yet
ClassifierAtRest ==
    /\ cLevel = "unset"
    /\ cMatches = "unset"
    /\ cCounted = {"unset"}

\* RiskManagement after construction, before the mount effect
\* the operator waits for a handler to return before starting the next
OneAtATime == [o \in {"o1"} |-> NoInvocation]

\* the operator starts a second handler while the first is in flight
Overlapping == [o \in {"o1", "o2"} |-> NoInvocation]

RiskManagementMounted ==
    /\ risks = <<>>
    /\ loading = TRUE
    /\ error = NULL
    /\ searchTerm = <<>>
    /\ filterCategory = "all"
    /\ filterStatus = "all"
    /\ filterRiskLevel = "all"
    /\ sortField = "risk_score"
    /\ sortDirection = "desc"
    /\ fetchPc = "idle"
    /\ selectedRisk = NoRisk
    /\ showAddForm = FALSE
    /\ showEditForm = FALSE
    /\ editingRisk = NoRisk
    /\ opsStarted = 0

\* AddAssetForm after construction
\* the first render of a route: the session is still being looked up
ProtectedRouteMounted ==
    /\ auth = [user |-> Null, profile |-> Null, loading |-> TRUE,
               hasPermission |-> FALSE, hasRole |-> FALSE]
    /\ now = 1
    /\ rendered = ProtectedRoute(auth, props, now)

\* a route without requirements
NoRequirement ==
    [requiredPermission |-> Undefined, requiredRole |-> Undefined,
     fallback |-> Undefined]

AddAssetFormMounted ==
    /\ mitigations = <<>>
    /\ aLoading = FALSE
    /\ aError = NULL
    /\ aiScoring = FALSE
    /\ frames = [h \in Invocations |-> [pc |-> "none"]]
    /\ allPersonnel = <<>>
    /\ personnelSearchTerm = <<>>
    /\ loadingPersonnel = FALSE
    /\ authorized = <<>>
    /\ personnelPc = "idle"

----------------------------------------------------------------------------
(* Specifications *)

\* the classifier on every score of ScoreRange and every requested band
InitClassify ==
    /\ cScore \in ScoreRange
    /\ cBand \in RiskLevelOptions
    /\ ClassifierAtRest
    /\ ops = OneAtATime /\ RiskManagementMounted /\ store = {} /\ organizationId = "org1"
    /\ props = NoRequirement /\ ProtectedRouteMounted
    /\ AddAssetFormMounted /\ personnelTable = {}

NextClassify ==
    \/ classifyScore
    \/ filterByRiskLevel
    \/ countInBands

SpecClassify == InitClassify /\ [][NextClassify]_vars

\* the list view of RiskManagement over every content of the table
InitQuery ==
    /\ cScore = 0 /\ cBand = "all" /\ ClassifierAtRest
    /\ ops = OneAtATime /\ RiskManagementMounted /\ store \in Stores /\ organizationId = "org1"
    /\ props = NoRequirement /\ ProtectedRouteMounted
    /\ AddAssetFormMounted /\ personnelTable = {}

NextQuery ==
    \/ fetchRisks
    \/ fetchRisksOk
    \/ fetchRisksFail
    \/ \E value \in SearchTerms : setSearchTerm(value)
    \/ \E value \in CategoryOptions : setFilterCategory(value)
    \/ \E value \in StatusOptions : setFilterStatus(value)
    \/ \E value \in RiskLevelOptions : setFilterRiskLevel(value)
    \/ \E field \in SortFields : handleSort(field)

SpecQuery == InitQuery /\ [][NextQuery]_vars

\* the asset form: submissions, estimator and onSubmit completions
InitAsset ==
    /\ cScore = 0 /\ cBand = "all" /\ ClassifierAtRest
    /\ ops = OneAtATime /\ RiskManagementMounted /\ store = {} /\ organizationId = "org1"
    /\ props = NoRequirement /\ ProtectedRouteMounted
    /\ AddAssetFormMounted /\ personnelTable = {}

NextAsset ==
    \/ \E list \in MitigationLists : setMitigations(list)
    \/ \E h \in Invocations, fd \in FormInputs : handleSubmit(h, fd)
    \/ \E h \in Invocations, score \in EstimatorScores :
           scoreAssetRiskResolves(h, score)
    \/ \E h \in Invocations : scoreAssetRiskRejects(h)
    \/ \E h \in Invocations : onSubmitResolves(h)
    \/ \E h \in Invocations, err \in OnSubmitRejections :
           onSubmitRejects(h, err)

SpecAsset == InitAsset /\ [][NextAsset]_vars

\* the asset form with the scheduling the code can rely on: a call of
\* onSubmit that was made settles, and the continuation of handleSubmit
\* runs; nothing makes the estimator answer
SpecAssetLive ==
    /\ InitAsset
    /\ [][NextAsset]_vars
    /\ \A h \in Invocations :
           WF_vars(onSubmitResolves(h)
                   \/ \E err \in OnSubmitRejections : onSubmitRejects(h, err))

\* the authorized personnel of the asset form over every content of the
\* table personnel_details
InitPersonnel ==
    /\ cScore = 0 /\ cBand = "all" /\ ClassifierAtRest
    /\ ops = OneAtATime /\ RiskManagementMounted /\ store = {} /\ organizationId = "org1"
    /\ props = NoRequirement /\ ProtectedRouteMounted
    /\ AddAssetFormMounted /\ personnelTable \in SUBSET PersonnelRows

PersonnelIds == {person.id : person \in PersonnelRows}

NextPersonnel ==
    \/ fetchPersonnel
    \/ fetchPersonnelOk
    \/ fetchPersonnelFail
    \/ \E value \in PersonnelSearchTerms : setPersonnelSearchTerm(value)
    \/ \E personnelId \in PersonnelIds : addPersonnel(personnelId)
    \/ \E personnelId \in PersonnelIds : removePersonnel(personnelId)

SpecPersonnel == InitPersonnel /\ [][NextPersonnel]_vars

\* a route with each combination of props, over the values of useAuth()
InitRoute ==
    /\ cScore = 0 /\ cBand = "all" /\ ClassifierAtRest
    /\ ops = OneAtATime /\ RiskManagementMounted /\ store = {} /\ organizationId = "org1"
    /\ AddAssetFormMounted /\ personnelTable = {}
    /\ props \in RouteProps /\ ProtectedRouteMounted

NextRoute ==
    \/ \E a \in AuthStates, t \in 1..MaxTime : authChanged(a, t)
    \/ parentRendered

SpecRoute == InitRoute /\ [][NextRoute]_vars

\* the operator of RiskManagement: create, update, delete, the audit trail
\* and the refresh, with and without an organization in the profile
Init ==
    /\ cScore = 0 /\ cBand = "all" /\ ClassifierAtRest
    /\ ops = OneAtATime /\ RiskManagementMounted /\ store \in CrudStores
    /\ organizationId \in {"", "org1"}
    /\ props = NoRequirement /\ ProtectedRouteMounted
    /\ AddAssetFormMounted /\ personnelTable = {}

Next ==
    \/ fetchRisks
    \/ fetchRisksOk
    \/ fetchRisksFail
    \/ \E value \in BOOLEAN : setShowAddForm(value)
    \/ \E risk \in RowsOnScreen \cup {NoRisk} : setSelectedRisk(risk)
    \/ \E risk \in RowsOnScreen : openEditForm(risk)
    \/ closeEditForm
    \/ \E o \in OpIds, formData \in CreateForms : handleCreateRisk(o, formData)
    \/ \E o \in OpIds : insertOk(o)
    \/ \E o \in OpIds : insertFails(o)
    \/ \E o \in OpIds, formData \in UpdateForms : handleUpdateRisk(o, formData)
    \/ \E o \in OpIds : updateOk(o)
    \/ \E o \in OpIds : updateFails(o)
    \/ \E o \in OpIds, risk \in RowsOnScreen, accepted \in BOOLEAN :
           rowDeleteClicked(o, risk, accepted)
    \/ \E o \in OpIds, accepted \in BOOLEAN : detailDeleteClicked(o, accepted)
    \/ \E o \in OpIds : snapshotOk(o)
    \/ \E o \in OpIds : snapshotFails(o)
    \/ \E o \in OpIds : deleteOk(o)
    \/ \E o \in OpIds, err \in DeleteErrors : deleteFails(o, err)
    \/ \E o \in OpIds : auditInsertOk(o)
    \/ \E o \in OpIds : auditInsertFails(o)
    \/ \E o \in OpIds : refreshOk(o)
    \/ \E o \in OpIds : refreshFails(o)

Spec == Init /\ [][Next]_vars

\* the same operator, who does not wait for a handler to return
InitOverlap ==
    /\ cScore = 0 /\ cBand = "all" /\ ClassifierAtRest
    /\ ops = Overlapping /\ RiskManagementMounted /\ store \in CrudStores
    /\ organizationId = "org1"
    /\ props = NoRequirement /\ ProtectedRouteMounted
    /\ AddAssetFormMounted /\ personnelTable = {}

SpecOverlap == InitOverlap /\ [][Next]_vars

----------------------------------------------------------------------------
(* Properties of the severity classifier (SpecClassify) *)

SeverityLevels == {"Low", "Medium", "High", "Critical"}

\* the level that getRiskLevel names for a band of the risk-level select
BandLabel(band) ==
    CASE band = "low" -> "Low"
      [] band = "medium" -> "Medium"
      [] band = "high" -> "High"
      [] band = "critical" -> "Critical"

\* C1: for every integer score, getRiskLevel returns Low iff score <= 5,
\* Medium iff 6 <= score <= 12, High iff 13 <= score <= 20 and Critical iff
\* score >= 21; it returns one of the four levels for every score, also for
\* scores above 25.
C1_ClassifierBands ==
    cLevel # "unset" =>
        /\ cLevel \in SeverityLevels
        /\ (cLevel = "Low") <=> (cScore <= 5)
        /\ (cLevel = "Medium") <=> (6 <= cScore /\ cScore <= 12)
        /\ (cLevel = "High") <=> (13 <= cScore /\ cScore <= 20)
        /\ (cLevel = "Critical") <=> (cScore >= 21)

\* a score above the ceiling of the risk matrix has been classified
C1_Witness == cScore > 25 /\ cLevel = "Critical"

\* C6: for every score and every requested band, the risk-level predicate
\* of the filter accepts the score iff getRiskLevel of the score is that band,
\* and the band counters of riskStats count the score in that band only.
C6_FilterAgreesWithClassifier ==
    /\ (cMatches # "unset" /\ cBand # "all") =>
           ((cMatches = "accepted") <=> (getRiskLevel(cScore) = BandLabel(cBand)))
    /\ cCounted # {"unset"} =>
           cCounted = {b \in {"low", "medium", "high", "critical"} :
                           BandLabel(b) = getRiskLevel(cScore)}

\* the first score of the high band has been accepted by the high filter and
\* counted
C6_Witness ==
    /\ cScore = 13
    /\ cBand = "high"
    /\ cMatches = "accepted"
    /\ cCounted = {"high"}

----------------------------------------------------------------------------
(* Properties of handleSubmit (SpecAsset) *)

\* the sum of the reductions of a mitigation list, position by position
RECURSIVE SumOfReductions(_, _)
SumOfReductions(list, n) ==
    IF n = 0 THEN 0
    ELSE list[n].applied_risk_reduction_score + SumOfReductions(list, n - 1)

ReductionsOf(list) ==
    [i \in 1..Len(list) |-> list[i].applied_risk_reduction_score]

\* the invocations whose asset record has been handed to onSubmit
Submitted == {h \in Invocations : frames[h].pc = "awaitOnSubmit"}

\* C2: for every base score >= 0 and every list M of applied mitigations, the
\* effective score of the submitted record is >= 0, is base - sum(M) when
\* that is >= 0 and 0 otherwise (base 40 with reductions 15, 10 gives 15).
C2_EffectiveScoreFloored ==
    \A h \in Submitted :
        LET base == frames[h].aiRiskScoreOverall
            M == frames[h].mitigations
            difference == base - SumOfReductions(M, Len(M))
            effective == frames[h].finalAssetData.ai_risk_score.overall
        IN base >= 0 =>
               /\ effective >= 0
               /\ difference >= 0 => effective = difference
               /\ difference < 0 => effective = 0
               /\ (base = 40 /\ ReductionsOf(M) = <<15, 10>>) => effective = 15

\* a record with base 10 and a larger reduction has been submitted, floored
\* at 0, and so has the record of base 40 with reductions 15 and 10
C2_Witness ==
    /\ \E h \in Submitted :
           /\ frames[h].aiRiskScoreOverall = 10
           /\ ReductionsOf(frames[h].mitigations) = <<15>>
           /\ frames[h].finalAssetData.ai_risk_score.overall = 0
    /\ \E h \in Submitted :
           /\ frames[h].aiRiskScoreOverall = 40
           /\ ReductionsOf(frames[h].mitigations) = <<15, 10>>
           /\ frames[h].finalAssetData.ai_risk_score.overall = 15

\* C3: every record handed to onSubmit keeps the base score as originalScore
\* and the summed reduction as totalRiskReduction next to the effective
\* score, with overall = max(0, originalScore - totalRiskReduction);
\* originalScore is the estimator's score, or the default base score when the
\* estimator failed, never the effective score.
C3_OriginalScoreRetained ==
    \A h \in Submitted :
        LET score == frames[h].finalAssetData.ai_risk_score
            M == frames[h].mitigations
        IN /\ score.originalScore = frames[h].aiRiskScoreOverall
           /\ frames[h].estimatorFailed => score.originalScore = DefaultOverall
           /\ score.totalRiskReduction = SumOfReductions(M, Len(M))
           /\ score.overall =
                  (IF score.originalScore - score.totalRiskReduction > 0
                   THEN score.originalScore - score.totalRiskReduction
                   ELSE 0)

\* a submitted record whose effective score differs from its original score
C3_Witness ==
    \E h \in Submitted :
        LET score == frames[h].finalAssetData.ai_risk_score
        IN /\ ~frames[h].estimatorFailed
           /\ score.originalScore = 40
           /\ score.totalRiskReduction = 25
           /\ score.overall = 15

\* C4: when the estimator call throws, the submission goes on: the default
\* base score of the form state is the base, the reduction of the captured
\* mitigations is applied to it, onSubmit is called exactly once and no error
\* message is set.
C4_EstimatorFailureContained ==
    [][\A h \in Invocations :
          scoreAssetRiskRejects(h) =>
              LET M == frames[h].mitigations
                  reduced == DefaultOverall - SumOfReductions(M, Len(M))
                  score == frames'[h].finalAssetData.ai_risk_score
              IN /\ frames'[h].pc = "awaitOnSubmit"
                 /\ frames'[h].onSubmitCalls = 1
                 /\ score.originalScore = DefaultOverall
                 /\ score.totalRiskReduction = SumOfReductions(M, Len(M))
                 /\ score.overall = (IF reduced > 0 THEN reduced ELSE 0)
                 /\ aError' = aError
                 /\ aLoading' = aLoading]_vars

\* after a failed estimator call the record has been handed to onSubmit with
\* the default base score reduced by the mitigations, and no error is shown
C4_Witness ==
    \E h \in Submitted :
        /\ frames[h].estimatorFailed
        /\ frames[h].onSubmitCalls = 1
        /\ frames[h].finalAssetData.ai_risk_score.originalScore = DefaultOverall
        /\ frames[h].finalAssetData.ai_risk_score.overall = 10
        /\ aError = NULL

----------------------------------------------------------------------------
(* Properties of the list view of RiskManagement (SpecQuery) *)

\* the lower-case form of one code unit
LowerUnit(c) == IF c \in 65..90 THEN c + 32 ELSE c

\* term occurs in text at some offset, letter case ignored
OccursIgnoringCase(term, text) ==
    \E offset \in 0..Len(text) :
        /\ offset + Len(term) <= Len(text)
        /\ \A j \in 1..Len(term) :
               LowerUnit(text[offset + j]) = LowerUnit(term[j])

\* the four predicates of the filter, each matching every record when unset
SatisfiesActivePredicates(r) ==
    /\ \/ OccursIgnoringCase(searchTerm, r.title)
       \/ OccursIgnoringCase(searchTerm, r.description)
    /\ filterCategory # "all" => r.category = filterCategory
    /\ filterStatus # "all" => r.status = filterStatus
    /\ filterRiskLevel # "all" =>
           getRiskLevel(r.risk_score) = BandLabel(filterRiskLevel)

Elements(seq) == {seq[i] : i \in 1..Len(seq)}

PositionIn(seq, x) == CHOOSE i \in 1..Len(seq) : seq[i] = x

\* C5: for every risk collection and every setting of the four filters,
\* filteredRisks is a sub-collection of risks (same records, same relative
\* order), every element of it satisfies all active predicates and every
\* risk left out of it fails at least one of them.
C5_FilterSoundAndComplete ==
    /\ Elements(filteredRisks) \subseteq Elements(risks)
    /\ \A i, k \in 1..Len(filteredRisks) :
           i < k => PositionIn(risks, filteredRisks[i])
                        < PositionIn(risks, filteredRisks[k])
    /\ \A r \in Elements(filteredRisks) : SatisfiesActivePredicates(r)
    /\ \A r \in Elements(risks) \ Elements(filteredRisks) :
           ~SatisfiesActivePredicates(r)

\* all four filters are set and keep a part of three loaded risks
C5_Witness ==
    /\ Len(risks) = 3
    /\ searchTerm # <<>>
    /\ filterCategory # "all"
    /\ filterStatus # "all"
    /\ filterRiskLevel # "all"
    /\ Len(filteredRisks) > 0
    /\ Len(filteredRisks) < Len(risks)

\* C7: for every risk collection the four band counters of riskStats add up
\* to riskStats.total: every risk is counted in exactly one band.
C7_BandCountsSumToTotal ==
    /\ riskStats.low + riskStats.medium + riskStats.high + riskStats.critical
           = riskStats.total
    /\ \A r \in Elements(risks) : Cardinality(countedBands(r.risk_score)) = 1

\* three risks of three different bands are loaded, one at the end of the
\* low band
C7_Witness ==
    /\ riskStats.total = 3
    /\ riskStats.low = 1
    /\ riskStats.high = 1
    /\ riskStats.critical = 1

\* the sum of the scores of a collection, position by position
RECURSIVE ScoreTotal(_, _)
ScoreTotal(collection, n) ==
    IF n = 0 THEN 0
    ELSE collection[n].risk_score + ScoreTotal(collection, n - 1)

Abs(x) == IF x < 0 THEN 0 - x ELSE x

\* C8: riskStats.avgScore is the mean of all risk_score values rounded to the
\* nearest integer, and 0 for the empty collection; for the scores 5, 15, 25
\* it is 15.
C8_AverageRounded ==
    LET n == Len(risks)
        total == ScoreTotal(risks, n)
    IN /\ n = 0 => riskStats.avgScore = 0
       /\ n > 0 => 2 * Abs(riskStats.avgScore * n - total) <= n
       /\ (n = 3 /\ {r.risk_score : r \in Elements(risks)} = {5, 15, 25}) =>
              riskStats.avgScore = 15

\* the scores 5, 12, 15 are loaded: their mean 10.67 is shown as 11
C8_Witness ==
    /\ Len(risks) = 3
    /\ {r.risk_score : r \in Elements(risks)} = {5, 12, 15}
    /\ riskStats.avgScore = 11

filterSortState ==
    <<searchTerm, filterCategory, filterStatus, filterRiskLevel, sortField,
      sortDirection>>

\* C9: the statistics are computed over the full unfiltered collection:
\* riskStats.total is the size of risks, and a change of the search term, a
\* filter, the sort key or the sort direction leaves riskStats unchanged.
C9_StatsIgnoreFilterAndSort ==
    /\ [](riskStats.total = Len(risks))
    /\ [][filterSortState' # filterSortState => riskStats' = riskStats]_vars

\* a filter hides a part of the loaded risks, the sort order was changed,
\* and the statistics still count all of them
C9_Witness ==
    /\ Len(risks) = 3
    /\ Len(filteredRisks) < Len(risks)
    /\ sortDirection = "asc"
    /\ riskStats.total = 3

\* C10: handleSort(field) on the active sort key flips the direction and
\* keeps the key; on another key it makes that key active with direction
\* desc, whatever the direction was. One key and one direction are active at
\* every moment.
C10_HandleSortToggles ==
    /\ [](sortField \in SortFields /\ sortDirection \in {"asc", "desc"})
    /\ [][\A field \in SortFields :
             handleSort(field) =>
                 IF field = sortField
                 THEN /\ sortField' = sortField
                      /\ sortDirection' # sortDirection
                 ELSE /\ sortField' = field
                      /\ sortDirection' = "desc"]_vars

\* the key was changed and then toggled to ascending
C10_Witness == sortField = "title" /\ sortDirection = "asc"

\* the rows before x in a sequence of distinct rows
Precedes(seq, x, y) == PositionIn(seq, x) < PositionIn(seq, y)

\* C11: for the same filtered collection, the orderings by risk_score
\* descending and ascending are reverses of each other on the elements with
\* distinct scores: when the direction of the risk_score key is toggled, a
\* precedes b afterwards iff b preceded a before.
C11_ScoreOrderReverses ==
    [][(/\ sortField = "risk_score"
        /\ sortField' = "risk_score"
        /\ sortDirection' # sortDirection
        /\ filteredRisks' = filteredRisks)
       => \A before \in {sortedRisks}, after \in {sortedRisks'} :
             /\ Elements(after) = Elements(filteredRisks)
             /\ Len(after) = Len(filteredRisks)
             /\ \A a, b \in Elements(after) :
                    a.risk_score # b.risk_score =>
                        (Precedes(after, a, b) <=> Precedes(before, b, a))
             /\ \A a, b \in Elements(after) :
                    (sortDirection' = "asc" /\ a.risk_score < b.risk_score) =>
                        Precedes(after, a, b)]_vars

\* three risks, two of them with the same score, are shown in ascending
\* order of score
C11_Witness ==
    /\ sortField = "risk_score"
    /\ sortDirection = "asc"
    /\ Len(sortedRisks) = 3
    /\ sortedRisks[1].risk_score = 5
    /\ sortedRisks[2].risk_score = 15
    /\ sortedRisks[3].risk_score = 15
    /\ sortedRisks[2].id = "r5"
    /\ sortedRisks[3].id = "r2"

----------------------------------------------------------------------------
(* Properties of create, update, delete and the audit trail (Spec) *)

\* how often an invocation has issued a call
Count(calls, call) == Cardinality({i \in DOMAIN calls : calls[i] = call})

\* the invocations whose call on the table risks has succeeded and which
\* have not returned yet
Mutated == {o \in OpIds : ops[o].pc \in {"awaitAudit", "awaitRefresh"}}

ActionOf(kind) ==
    CASE kind = "create" -> "risk_created"
      [] kind = "update" -> "risk_updated"
      [] kind = "delete" -> "risk_deleted"

\* the event names the risk that invocation o has written or removed
NamesMutatedRisk(o, event) ==
    CASE ops[o].kind = "create" ->
             \E row \in store :
                /\ \A q \in store : q.created_at <= row.created_at
                /\ row.title = ops[o].formData.title
                /\ event.resource_id = row.id
      [] ops[o].kind = "update" ->
             /\ event.resource_id = ops[o].editingRisk.id
             /\ \E row \in store :
                   /\ row.id = event.resource_id
                   /\ row.status = ops[o].formData.status
      [] ops[o].kind = "delete" ->
             /\ event.resource_id = ops[o].riskId
             /\ \A row \in store : row.id # event.resource_id

\* C12 as stated: every create, update and delete that has changed the
\* table has written exactly one event to audit_logs, with the action of
\* the operation and the id of the risk
C12_OneAuditWritePerMutation ==
    \A o \in Mutated :
        /\ Count(ops[o].calls, "audit_logs.insert") = 1
        /\ Len(ops[o].events) = 1
        /\ ops[o].events[1].action = ActionOf(ops[o].kind)
        /\ NamesMutatedRisk(o, ops[o].events[1])

\* C12: every create, update and delete that has changed the table has
\* called logAuditEvent exactly once, with the action of the operation and
\* the id of the risk; the call writes one event to audit_logs when the
\* profile has an organization and none when it has not
C12_OneAuditCallPerMutation ==
    \A o \in Mutated :
        /\ Count(ops[o].calls, "logAuditEvent") = 1
        /\ Len(ops[o].events) = 1
        /\ ops[o].events[1].action = ActionOf(ops[o].kind)
        /\ NamesMutatedRisk(o, ops[o].events[1])
        /\ Count(ops[o].calls, "audit_logs.insert")
               = (IF organizationId = "" THEN 0 ELSE 1)

C12_Witness ==
    /\ organizationId = ""
    /\ \E o \in Mutated :
          /\ ops[o].kind = "update"
          /\ ops[o].events = << [action |-> "risk_updated",
                                 resource_id |-> "r1",
                                 details |-> [risk_title |-> <<65, 98>>,
                                              previous_status |-> "identified",
                                              new_status |-> "closed"]] >>
          /\ ops[o].calls = <<"risks.update", "logAuditEvent", "risks.select">>

\* C13: when the write to audit_logs fails, logAuditEvent returns and the
\* handler goes on as after a successful write: it issues the refresh with
\* no error shown and the table as the mutation left it (a deleted risk
\* stays deleted), and it returns resolved, with an error only if the
\* refresh itself fails
C13_AuditFailureContained ==
    [][\A o \in OpIds :
          /\ (ops[o].pc = "awaitAudit" /\ ops'[o].auditWrite = "failed") =>
                /\ ops'[o] = [ops[o] EXCEPT
                                 !.pc = "awaitRefresh",
                                 !.calls = Append(@, "risks.select"),
                                 !.auditWrite = "failed"]
                /\ error' = NULL
                /\ loading' = TRUE
                /\ store' = store
                /\ ops[o].kind = "delete" =>
                       \A row \in store' : row.id # ops[o].riskId
          /\ (/\ ops[o].pc = "awaitRefresh"
              /\ ops[o].auditWrite = "failed"
              /\ ops'[o].pc = "returned") =>
                /\ ops'[o].result = "resolved"
                /\ loading' = FALSE
                /\ store' = store
                /\ \/ error' = NULL /\ risks' = selectOrderByCreatedAtDesc(store)
                   \/ error' = "Failed to load risk data" /\ risks' = risks
       ]_vars

C13_Witness ==
    \E o \in OpIds :
        /\ ops[o].pc = "returned"
        /\ ops[o].kind = "delete"
        /\ ops[o].auditWrite = "failed"
        /\ ops[o].result = "resolved"
        /\ ops[o].calls = <<"confirm", "risks.selectOne", "risks.delete",
                            "logAuditEvent", "audit_logs.insert",
                            "risks.select">>
        /\ error = NULL
        /\ ~loading
        /\ store = {}
        /\ risks = <<>>

\* C14: when the delete of a risk that is in the table succeeds, the
\* risk_deleted event carries title, category, risk_score and status of
\* the row as it was before the delete, and the read that fetched them
\* was issued before the delete
C14_DeleteEventCarriesSnapshot ==
    [][\A o \in OpIds :
          (/\ ops[o].pc = "awaitDelete"
           /\ ops'[o].pc \in {"awaitAudit", "awaitRefresh"}) =>
             /\ ops'[o].calls[2] = "risks.selectOne"
             /\ ops'[o].calls[3] = "risks.delete"
             /\ \A row \in store :
                    row.id = ops[o].riskId =>
                       ops'[o].events[1].details.risk_details = snapshotOf(row)
       ]_vars

\* C15: without an organization in the profile a call of logAuditEvent
\* writes nothing to audit_logs and returns: the handler goes on to the
\* refresh with no error set
C15_NoOrganizationNoWrite ==
    [][\A o \in OpIds :
          (/\ organizationId = ""
           /\ Count(ops'[o].calls, "logAuditEvent")
                  > Count(ops[o].calls, "logAuditEvent")) =>
             /\ ops'[o].calls
                    = ops[o].calls \o <<"logAuditEvent", "risks.select">>
             /\ ops'[o].auditWrite = "none"
             /\ ops'[o].pc = "awaitRefresh"
             /\ ops'[o].result = "pending"
             /\ error' = NULL
       ]_vars

C15_Witness ==
    /\ organizationId = ""
    /\ \E o \in OpIds :
          /\ ops[o].pc = "awaitRefresh"
          /\ ops[o].kind = "create"
          /\ ops[o].calls = <<"risks.insert", "logAuditEvent", "risks.select">>
          /\ Len(ops[o].events) = 1
          /\ error = NULL

StoreAndAuditCalls ==
    {"risks.selectOne", "risks.delete", "risks.select", "logAuditEvent",
     "audit_logs.insert"}

\* C16: every call of handleDeleteRisk asks for the confirmation first and
\* once; unless the answer was to go ahead it has issued no call on the
\* tables, has emitted no audit event and has returned
C16_ConfirmationFirst ==
    \A o \in OpIds :
        ops[o].kind = "delete" =>
            /\ ops[o].calls[1] = "confirm"
            /\ Count(ops[o].calls, "confirm") = 1
            /\ ops[o].confirm \in {"accepted", "declined"}
            /\ ops[o].confirm = "declined" =>
                   /\ \A i \in DOMAIN ops[o].calls :
                          ops[o].calls[i] \notin StoreAndAuditCalls
                   /\ ops[o].events = <<>>
                   /\ ops[o].pc = "returned"

C16_Witness ==
    /\ store # {}
    /\ risks # <<>>
    /\ \E o \in OpIds :
          /\ ops[o].kind = "delete"
          /\ ops[o].confirm = "declined"
          /\ ops[o].pc = "returned"
          /\ ops[o].calls = <<"confirm">>

\* C17: a read of fetchRisks that fails, at mount or as the refresh of a
\* handler, leaves risks as it was, sets the error message, which the
\* rendered view shows in the banner, and resets loading
C17_FailedReadKeepsRisks ==
    [][(fetchRisksFail \/ \E o \in OpIds : refreshFails(o)) =>
          /\ risks' = risks
          /\ error' = "Failed to load risk data"
          /\ loading' = FALSE
          /\ controlsRendered'
       ]_vars

C17_Witness ==
    /\ error = "Failed to load risk data"
    /\ ~loading
    /\ Len(risks) = 1
    /\ Cardinality(store) = 2
    /\ \E o \in OpIds :
          /\ ops[o].pc = "returned"
          /\ ops[o].kind = "create"
          /\ Count(ops[o].calls, "risks.select") = 1

\* C18: when the insert or the update fails, the handler rejects towards
\* its caller and leaves the forms as they are; when the delete fails, the
\* handler sets the error message; in each case risks and the table are
\* unchanged, no refresh is issued and loading is reset
C18_StoreFailurePropagates ==
    [][\A o \in OpIds :
          /\ (insertFails(o) \/ updateFails(o)) =>
                /\ ops'[o].result = "rejected"
                /\ showAddForm' = showAddForm
                /\ showEditForm' = showEditForm
                /\ editingRisk' = editingRisk
          /\ (\E err \in DeleteErrors : deleteFails(o, err)) =>
                /\ error' \in {"Failed to delete risk", "Failed to fetch"}
                /\ ops'[o].result = "resolved"
          /\ (\/ insertFails(o) \/ updateFails(o)
              \/ \E err \in DeleteErrors : deleteFails(o, err)) =>
                /\ risks' = risks
                /\ store' = store
                /\ ops'[o].pc = "returned"
                /\ Count(ops'[o].calls, "risks.select") = 0
                /\ loading' = FALSE
       ]_vars

C18_Witness ==
    /\ showAddForm
    /\ ~loading
    /\ risks # <<>>
    /\ risks = selectOrderByCreatedAtDesc(store)
    /\ \E o \in OpIds :
          /\ ops[o].pc = "returned"
          /\ ops[o].kind = "create"
          /\ ops[o].result = "rejected"
          /\ ops[o].calls = <<"risks.insert">>

----------------------------------------------------------------------------
(* Properties of the validation and of overlapping submissions (SpecAsset) *)

\* C19: a handleSubmit with an empty asset name, city, country or officer
\* name starts no estimator call and no onSubmit call, sets the error
\* message and resets loading
C19_MissingFieldRejected ==
    [][\A h \in Invocations, fd \in FormInputs :
          (missingRequiredField(fd) /\ handleSubmit(h, fd)) =>
             /\ frames' = frames
             /\ aiScoring' = aiScoring
             /\ aError' = "Please fill in all required fields"
             /\ aLoading' = FALSE
       ]_vars

C19_Witness ==
    /\ aError = "Please fill in all required fields"
    /\ ~aLoading
    /\ ~aiScoring
    /\ \A h \in Invocations : frames[h].pc = "none"

\* C20: no asset record built from the score of a superseded estimator
\* call is handed to onSubmit
C20_SupersededScoreDiscarded ==
    \A h \in Invocations :
        frames[h].pc = "awaitOnSubmit" => ~frames[h].superseded

\* C21: an estimator call that is pending is followed, whether or not the
\* estimator answers, by the call of onSubmit with aiScoring reset, and
\* loading returns to false
C21_EstimatorWaitBounded ==
    /\ \A h \in Invocations :
           (frames[h].pc = "awaitAI")
              ~> (frames[h].pc = "awaitOnSubmit" /\ ~aiScoring)
    /\ aLoading ~> ~aLoading

\* C22: a record submitted with an empty mitigation list carries the empty
\* list, not null
C22_EmptyMitigationsKept ==
    \A h \in Submitted :
        frames[h].mitigations = <<>> =>
            frames[h].finalAssetData.mitigations = Some(<<>>)

\* how often a mitigation of the catalog occurs in a list
Occurrences(list, m) == Cardinality({i \in 1..Len(list) : list[i] = m})

\* the sum over the catalog of occurrences times reduction
RECURSIVE WeightedSum(_, _)
WeightedSum(list, catalog) ==
    IF catalog = {} THEN 0
    ELSE LET m == CHOOSE x \in catalog : TRUE
         IN Occurrences(list, m) * m.applied_risk_reduction_score
               + WeightedSum(list, catalog \ {m})

IsPermutationOf(list, other) ==
    /\ Len(list) = Len(other)
    /\ \A m \in MitigationCatalog \cup {ZeroMitigation} :
           Occurrences(list, m) = Occurrences(other, m)

\* C24: totalRiskReduction of a submitted record is the sum of the
\* reductions of its mitigation list with every occurrence counted, and
\* every permutation of the list has the same total
C24_ReductionIsOrderFreeSum ==
    \A h \in Submitted :
        LET M == frames[h].mitigations
            total == frames[h].finalAssetData.ai_risk_score.totalRiskReduction
        IN /\ total = WeightedSum(M, MitigationCatalog \cup {ZeroMitigation})
           /\ \A other \in MitigationLists :
                  IsPermutationOf(other, M) => totalRiskReductionOf(other) = total

\* a list with the same mitigation twice and a list of two different
\* mitigations have been submitted
C24_Witness ==
    /\ \E h \in Submitted :
           /\ ReductionsOf(frames[h].mitigations) = <<15, 15>>
           /\ frames[h].finalAssetData.ai_risk_score.totalRiskReduction = 30
    /\ \E h \in Submitted :
           /\ ReductionsOf(frames[h].mitigations) = <<10, 15>>
           /\ frames[h].finalAssetData.ai_risk_score.totalRiskReduction = 25

\* C25: mitigationApplied of a submitted record is true exactly when its
\* totalRiskReduction is above 0; with no mitigation the effective score is
\* the base score, the reduction is 0 and the flag is false
C25_MitigatedIffReduced ==
    \A h \in Submitted :
        LET score == frames[h].finalAssetData.ai_risk_score
        IN /\ score.mitigationApplied <=> score.totalRiskReduction > 0
           /\ frames[h].mitigations = <<>> =>
                  /\ score.overall = frames[h].aiRiskScoreOverall
                  /\ score.totalRiskReduction = 0
                  /\ ~score.mitigationApplied

\* a record without mitigations and a record whose only mitigation reduces
\* by 0 have been submitted
C25_Witness ==
    /\ \E h \in Submitted :
           /\ frames[h].mitigations = <<>>
           /\ frames[h].finalAssetData.ai_risk_score.overall = 40
           /\ ~frames[h].finalAssetData.ai_risk_score.mitigationApplied
    /\ \E h \in Submitted :
           /\ ReductionsOf(frames[h].mitigations) = <<0>>
           /\ ~frames[h].finalAssetData.ai_risk_score.mitigationApplied

----------------------------------------------------------------------------
(* Properties of the authorized personnel (SpecPersonnel) *)

NoDuplicates(list) ==
    \A i, j \in 1..Len(list) : list[i] = list[j] => i = j

\* list without the entries equal to id, in the order of list
RECURSIVE Without(_, _)
Without(list, id) ==
    IF list = <<>> THEN <<>>
    ELSE IF Head(list) = id THEN Without(Tail(list), id)
    ELSE <<Head(list)>> \o Without(Tail(list), id)

\* C23: the authorized list never holds an id twice, and a step that
\* removes a person leaves the list without that id and with the other
\* ids as they were and in the same order
C23_AuthorizedHasNoDuplicates ==
    [][/\ NoDuplicates(authorized)
       /\ NoDuplicates(authorized')
       /\ \A personnelId \in PersonnelIds :
              removePersonnel(personnelId) =>
                 /\ \A i \in 1..Len(authorized') : authorized'[i] # personnelId
                 /\ authorized' = Without(authorized, personnelId)
      ]_vars

\* two persons are authorized after one was removed from between them
C23_Witness ==
    /\ authorized = <<"p3", "p1">>
    /\ Len(filteredPersonnel) = 1
    /\ filteredPersonnel[1].id = "p2"
    /\ personnelSearchTerm = <<69>>

----------------------------------------------------------------------------
(* Properties of the unset filters (SpecQuery) *)

\* the k-th of the four predicates of the filter callback
Keeps(k, risk) ==
    CASE k = 1 -> matchesSearch(risk)
      [] k = 2 -> matchesCategory(risk)
      [] k = 3 -> matchesStatus(risk)
      [] k = 4 -> matchesRiskLevel(filterRiskLevel, risk.risk_score)

\* the predicates applied one after the other as filters, in a given order
RECURSIVE FilterInOrder(_, _)
FilterInOrder(seq, order) ==
    IF order = <<>> THEN seq
    ELSE LET keep(risk) == Keeps(Head(order), risk)
         IN FilterInOrder(SelectSeq(seq, keep), Tail(order))

\* the orders in which four predicates can be evaluated
PredicateOrders ==
    {order \in [1..4 -> 1..4] : \A i, j \in 1..4 : order[i] = order[j] => i = j}

\* C26: a predicate whose control is unset keeps every loaded risk, with
\* all four unset filteredRisks is risks, and filtering by the four
\* predicates in any order gives filteredRisks
C26_UnsetMatchesAllAnyOrder ==
    /\ \A r \in Elements(risks) :
           /\ searchTerm = <<>> => matchesSearch(r)
           /\ filterCategory = "all" => matchesCategory(r)
           /\ filterStatus = "all" => matchesStatus(r)
           /\ filterRiskLevel = "all" =>
                  matchesRiskLevel(filterRiskLevel, r.risk_score)
    /\ (/\ searchTerm = <<>> /\ filterCategory = "all"
        /\ filterStatus = "all" /\ filterRiskLevel = "all") =>
           filteredRisks = risks
    /\ \A order \in PredicateOrders :
           FilterInOrder(risks, order) = filteredRisks

\* three risks are loaded and no filter is set
C26_Witness ==
    /\ Len(risks) = 3
    /\ searchTerm = <<>>
    /\ filterCategory = "all"
    /\ filterStatus = "all"
    /\ filterRiskLevel = "all"
    /\ filteredRisks = risks
    /\ sortField = "title"

----------------------------------------------------------------------------
(* Properties of the audit trail of failed and unissued mutations (Spec) *)

MutationCalls == {"risks.insert", "risks.update", "risks.delete"}

\* C27: logAuditEvent is called only in the step in which the insert,
\* update or delete of the handler returns without error, and directly
\* after that call; the step in which it returns an error ends the handler
\* with no call of logAuditEvent and no write to audit_logs; a
\* handleUpdateRisk that finds no risk being edited returns with no call
\* issued and leaves the table, loading and error as they are
C27_NoAuditWithoutMutation ==
    [][\A o \in OpIds :
          /\ \A i \in DOMAIN ops'[o].calls :
                 ops'[o].calls[i] = "logAuditEvent" =>
                    /\ i > 1
                    /\ ops'[o].calls[i - 1] \in MutationCalls
          /\ Count(ops'[o].calls, "audit_logs.insert")
                 <= Count(ops'[o].calls, "logAuditEvent")
          /\ ops'[o].pc # "returned" =>
                 Len(ops'[o].events) = Count(ops'[o].calls, "logAuditEvent")
          /\ (/\ ~free(o)
              /\ Count(ops'[o].calls, "logAuditEvent")
                     > Count(ops[o].calls, "logAuditEvent")) =>
                 insertOk(o) \/ updateOk(o) \/ deleteOk(o)
          /\ (\/ insertFails(o) \/ updateFails(o)
              \/ \E err \in DeleteErrors : deleteFails(o, err)) =>
                 /\ Count(ops'[o].calls, "logAuditEvent") = 0
                 /\ Count(ops'[o].calls, "audit_logs.insert") = 0
                 /\ ops'[o].pc = "returned"
                 /\ store' = store
          /\ (editingRisk = NoRisk
              /\ \E formData \in UpdateForms : handleUpdateRisk(o, formData)) =>
                 /\ ops'[o].calls = <<>>
                 /\ ops'[o].events = <<>>
                 /\ ops'[o].pc = "returned"
                 /\ store' = store
                 /\ loading' = loading
                 /\ error' = error
       ]_vars

\* an update of a risk of the table has failed: the handler has returned
\* rejected with the update as its only call
C27_Witness ==
    /\ store # {}
    /\ editingRisk # NoRisk
    /\ showEditForm
    /\ \E o \in OpIds :
          /\ ops[o].kind = "update"
          /\ ops[o].pc = "returned"
          /\ ops[o].result = "rejected"
          /\ ops[o].calls = <<"risks.update">>

----------------------------------------------------------------------------
(* Properties of ProtectedRoute (SpecRoute) *)

\* the account is not locked: account_locked_until is absent or is not a
\* time after now
NotLocked ==
    \/ auth.profile.account_locked_until \in {Null, Str("")}
    \/ ~laterThanNow(auth.profile.account_locked_until, now)

\* the children are rendered only when loading is false, there are a user
\* and a profile, the account is not locked and the required permission
\* and role, where given, are held
ChildrenOnlyWhenAdmitted ==
    rendered = "children" =>
        /\ ~auth.loading
        /\ auth.user # Null
        /\ auth.profile # Null
        /\ NotLocked
        /\ truthy(props.requiredPermission) => auth.hasPermission
        /\ truthy(props.requiredRole) => auth.hasRole

\* C28 as stated: the children are rendered only when admitted, and with
\* no user the route redirects to /login
C28_NoUserRedirects ==
    /\ ChildrenOnlyWhenAdmitted
    /\ auth.user = Null => rendered = "Navigate to /login"

\* C28: the children are rendered only when admitted; with no user and
\* loading false the route redirects to /login, whatever the profile, the
\* lock, the permission and the role are, and while loading is true it
\* shows the loading indicator
C28_NoUserRedirectsOnceLoaded ==
    /\ ChildrenOnlyWhenAdmitted
    /\ (auth.user = Null /\ ~auth.loading) => rendered = "Navigate to /login"
    /\ auth.loading => rendered = "Loading..."

\* loading is false and there is no user, while the profile is there, is
\* locked, and neither the permission nor the role is held
C28_Witness ==
    /\ ~auth.loading
    /\ auth.user = Null
    /\ auth.profile # Null
    /\ laterThanNow(auth.profile.account_locked_until, now)
    /\ truthy(props.requiredPermission) /\ ~auth.hasPermission
    /\ truthy(props.requiredRole) /\ ~auth.hasRole
    /\ rendered = "Navigate to /login"

----------------------------------------------------------------------------
(* Properties of the loading flag (SpecOverlap) *)

\* the read of the mount effect is due or awaited, or a handler has been
\* called and has not returned
InFlight ==
    \/ fetchPc \in {"idle", "pending"}
    \/ \E o \in OpIds : ~free(o)

\* C29: loading is true exactly while a fetch, create, update or delete
\* is in flight, also when two of them overlap
C29_LoadingIffInFlight == loading <=> InFlight

----------------------------------------------------------------------------
(* Properties of a declined delete (Spec) *)

\* a delete button is pressed and the confirmation is declined
DeclinedDelete ==
    \E o \in OpIds :
        \/ \E risk \in RowsOnScreen : rowDeleteClicked(o, risk, FALSE)
        \/ detailDeleteClicked(o, FALSE)

\* a step of a delete: a delete button is pressed, or a handleDeleteRisk
\* in flight goes on
DeleteStep ==
    \E o \in OpIds :
        \/ \E risk \in RowsOnScreen, accepted \in BOOLEAN :
               rowDeleteClicked(o, risk, accepted)
        \/ \E accepted \in BOOLEAN : detailDeleteClicked(o, accepted)
        \/ ops[o].kind = "delete" /\ ops'[o] # ops[o]

\* C30: a delete whose confirmation is declined, from a table row or from
\* the detail view, leaves risks, error, loading and selectedRisk as they
\* were; a step of a delete closes the detail view only when the selected
\* risk is no longer in the table
C30_DeclinedDeleteChangesNothing ==
    [][/\ DeclinedDelete =>
             /\ risks' = risks
             /\ error' = error
             /\ loading' = loading
             /\ selectedRisk' = selectedRisk
       /\ (DeleteStep /\ selectedRisk # NoRisk /\ selectedRisk' = NoRisk) =>
             \A row \in store' : row.id # selectedRisk.id
      ]_vars


============================================================================
